---- MODULE Spec2Model ----
(***************************************************************************)
(* A model of the L. Spiro NES execution core: the CPU bus (open-bus       *)
(* latch, float masks, RAM mirroring), the two-phase 6502 tick engine      *)
(* (CCpu6502::Tick / CCpu6502::TickPhi2), its micro-step functions and the *)
(* BRK / NMI / IRQ / RESET sequence.                                       *)
(*                                                                         *)
(* cpu    the fields of CCpu6502 (registers, micro-state, interrupt state) *)
(* bus    the CPU bus: RAM, open-bus latch, float masks, access log        *)
(* mapper the cartridge mapper's per-cycle tick                            *)
(* phase  the host driver's position: which half-clock it calls next       *)
(* obs    history variables that only record what happened                 *)
(***************************************************************************)
EXTENDS Integers, Sequences, FiniteSets, TLC

VARIABLES cpu, bus, mapper, phase, obs

vars == <<cpu, bus, mapper, phase, obs>>

---------------------------------------------------------------------------
(* Bounds of the model.                                                    *)

\* The host stops calling the ticks after this many CPU cycles.
MaxCycles == 30

\* The devices change the interrupt lines at most this many times.
MaxLineEvents == 3

\* The bus-level specification makes at most this many accesses.
MaxBusOps == 5

---------------------------------------------------------------------------
(* Program constants.                                                      *)

LSN_SF_CARRY == 1
LSN_SF_ZERO == 2
LSN_SF_IRQ == 4
LSN_SF_DECIMAL == 8
LSN_SF_BREAK == 16
LSN_SF_RESERVED == 32
LSN_SF_OVERFLOW == 64
LSN_SF_NEGATIVE == 128

LSN_V_NMI == 65530
LSN_V_RESET == 65532
LSN_V_IRQ_BRK == 65534

\* The internal RAM and its mirrors, as ApplyMemoryMap() walks them.
LSN_CPU_START == 0
LSN_CPU_FULL_SIZE == 8192
LSN_INTERNAL_RAM == 2048

---------------------------------------------------------------------------
(* Fixed-width arithmetic.                                                 *)

U8(v) == v % 256
U16(v) == v % 65536
Lo(w) == w % 256
Hi(w) == (w \div 256) % 256
Word(lo, hi) == lo + 256 * hi

\* m is one bit (a power of two).
HasBit(v, m) == (v \div m) % 2 = 1

\* SetBit<m>( v, cond ) for a one-bit mask m.
SetBit(m, v, cond) ==
    IF cond THEN (IF HasBit(v, m) THEN v ELSE v + m)
            ELSE (IF HasBit(v, m) THEN v - m ELSE v)

\* N and Z of status st set from the byte v.
SetNZ(st, v) == SetBit(LSN_SF_NEGATIVE, SetBit(LSN_SF_ZERO, st, v = 0), HasBit(v, 128))

\* Bitwise and / or of two 16-bit values.
BitAnd(a, b) ==
    LET t(i) == IF HasBit(a, 2^i) /\ HasBit(b, 2^i) THEN 2^i ELSE 0
    IN  t(0) + t(1) + t(2) + t(3) + t(4) + t(5) + t(6) + t(7)
        + t(8) + t(9) + t(10) + t(11) + t(12) + t(13) + t(14) + t(15)

BitOr(a, b) == a + b - BitAnd(a, b)

\* The value v with the bits of mask removed.
BitClear(v, mask) == v - BitAnd(v, mask)

---------------------------------------------------------------------------
(* Cartridge images.  A program is the PRG ROM a mapper exposes at         *)
(* 0x8000-0xFFFF: the RESET vector points at 0x8000, the NMI vector at     *)
(* 0x9010 and the IRQ/BRK vector at 0xA020; every other byte is NOP.       *)

\* The opcodes the programs use.
Op ==
    [BRK |-> 0, JAM |-> 2, PHP |-> 8, PLP |-> 40, RTI |-> 64, JMP |-> 76,
     CLI |-> 88, SEI |-> 120, NOP |-> 234, STA_ABS |-> 141, LDA_IMM |-> 169,
     BPL |-> 16, BMI |-> 48, BVC |-> 80, BVS |-> 112,
     BCC |-> 144, BCS |-> 176, BNE |-> 208, BEQ |-> 240,
     JMP_IND |-> 108, ADC_IMM |-> 105,
     LDA_ABS_X |-> 189, LDA_ABS_Y |-> 185, LDA_IND_Y |-> 177,
     STA_ABS_X |-> 157, STA_ABS_Y |-> 153, STA_IND_Y |-> 145,
     ASL_ABS |-> 14, LSR_ABS |-> 78, ROL_ABS |-> 46, ROR_ABS |-> 110,
     INC_ABS |-> 238, DEC_ABS |-> 206, SLO_ABS |-> 15, RLA_ABS |-> 47,
     SRE_ABS |-> 79, RRA_ABS |-> 111, DCP_ABS |-> 207, ISB_ABS |-> 239,
     ANE_IMM |-> 139, LXA_IMM |-> 171,
     SHA_ABS_Y |-> 159, SHA_IND_Y |-> 147, SHS_ABS_Y |-> 155, SHX_ABS_Y |-> 158,
     SHY_ABS_X |-> 156]

\* Where the images place the main loop and the two handlers.
Layout == [prg |-> 32768, main |-> 32768, nmi |-> 36880, irq |-> 40992]

\* main: the bytes at 0x8000, followed by JMP $8000.
\* irq:  the bytes at 0xA020, followed by RTI.
\* The NMI handler at 0x9010 is a single RTI.
Programs ==
    << [main |-> <<Op.CLI, Op.NOP>>,          irq |-> <<>>],
       [main |-> <<Op.CLI, Op.NOP>>,          irq |-> <<Op.CLI, Op.NOP>>],
       [main |-> <<Op.CLI, Op.NOP>>,          irq |-> <<Op.PLP, Op.NOP, Op.JMP, 33, 160>>],
       [main |-> <<Op.PLP, Op.PHP, Op.BRK, Op.NOP>>, irq |-> <<>>],
       [main |-> <<Op.PLP, Op.SEI, Op.CLI, Op.BRK, Op.NOP>>, irq |-> <<Op.PHP, Op.PLP>>],
       [main |-> <<Op.NOP, Op.JAM>>,          irq |-> <<>>],
       [main |-> <<Op.CLI, Op.JAM>>,          irq |-> <<>>] >>

\* n NOPs.
Nops(n) == [i \in 1..n |-> Op.NOP]

\* A main loop that writes v to 0x4014 after the instructions of pre.
DmaProgram(v, pre) ==
    [main |-> pre \o <<Op.LDA_IMM, v, Op.STA_ABS, 20, 64, Op.NOP>>, irq |-> <<>>]

\* The bytes written to 0x4014: a page of RAM, the page of the APU and
\* controller registers, and a page of PRG ROM.
DmaPages == {2, 64, 128}

\* What runs before the write: the first stolen cycle is cycle 13, 16 or 100.
DmaLeads == << <<>>, <<Op.PHP>>, <<Op.PHP>> \o Nops(42) >>

\* The number of the cartridge whose main loop writes v after lead l.
DmaCart(v, l) == 256 * l + v

\* The program on cartridge p: one of Programs, or a DMA program.
Program(p) ==
    IF p \in 1..Len(Programs) THEN Programs[p]
    ELSE DmaProgram(p % 256, DmaLeads[p \div 256])

Rom(p, a) ==
    LET Byte(prog, nm, ni) ==
          CASE a >= Layout.main /\ a < Layout.main + nm -> prog.main[a - Layout.main + 1]
            [] a = Layout.main + nm                  -> Op.JMP
            [] a = Layout.main + nm + 1              -> Lo(Layout.main)
            [] a = Layout.main + nm + 2              -> Hi(Layout.main)
            [] a = Layout.nmi                        -> Op.RTI
            [] a >= Layout.irq /\ a < Layout.irq + ni   -> prog.irq[a - Layout.irq + 1]
            [] a = Layout.irq + ni                   -> Op.RTI
            [] a = LSN_V_NMI                      -> Lo(Layout.nmi)
            [] a = LSN_V_NMI + 1                  -> Hi(Layout.nmi)
            [] a = LSN_V_RESET                    -> Lo(Layout.main)
            [] a = LSN_V_RESET + 1                -> Hi(Layout.main)
            [] a = LSN_V_IRQ_BRK                  -> Lo(Layout.irq)
            [] a = LSN_V_IRQ_BRK + 1              -> Hi(Layout.irq)
            [] OTHER                              -> Op.NOP
        Image(prog) == Byte(prog, Len(prog.main), Len(prog.irq))
    IN  Image(Program(p))

---------------------------------------------------------------------------
(* The CPU bus.  A machine m is a record [cpu, bus, mapper, order]: the    *)
(* handlers of the bus are member functions of the CPU, so an access may   *)
(* change both.  order is the history of the sub-steps of the running      *)
(* tick.                                                                   *)
(*                                                                         *)
(* bus.ram        the 2 KiB of internal RAM (absent cells hold 0)          *)
(* bus.openBus    the open-bus latch                                       *)
(* bus.floatMask  the masks set one address at a time by SetFloatMask()    *)
(* bus.driven     the regions whose masks the system set to 0x00           *)
(* bus.cart       the cartridge image a mapper exposes (0: none)           *)
(* bus.log        the accesses made by the running tick                    *)

Cell(f, a, dflt) == IF a \in DOMAIN f THEN f[a] ELSE dflt

Put(f, a, v) == [x \in DOMAIN f \cup {a} |-> IF x = a THEN v ELSE f[x]]

Region(a) ==
    CASE a < LSN_CPU_START + LSN_CPU_FULL_SIZE -> "ram"
      [] a >= Layout.prg                       -> "prg"
      [] OTHER                                 -> "io"

\* bus.cart of a cartridge with mapper 094.
Mapper094 == -94

\* The float mask of an address: 0xFF unless it was set.
FloatMask(b, a) ==
    IF a \in DOMAIN b.floatMask THEN b.floatMask[a]
    ELSE IF Region(a) \in b.driven THEN 0
    ELSE 255

SetFloatMask(b, a, mask) == [b EXCEPT !.floatMask = Put(@, a, mask)]

\* The read handlers with the RAM handler given the address itself, not
\* the address folded into the first 2 KiB.
ReadFunc_NoMirror(b, a) ==
    CASE a < LSN_CPU_START + LSN_CPU_FULL_SIZE -> [fn |-> "StdRead", parm |-> a]
      [] a = 16406 -> [fn |-> "Read4016", parm |-> 0]
      [] a = 16407 -> [fn |-> "Read4017", parm |-> 0]
      [] a >= Layout.prg /\ b.cart # 0 /\ b.cart # Mapper094 ->
            [fn |-> "PgmBankRead", parm |-> a]
      [] a >= 49152 /\ b.cart = Mapper094 -> [fn |-> "PgmBankRead_Fixed", parm |-> a - 49152]
      [] a >= 32768 /\ a < 49152 /\ b.cart = Mapper094 ->
            [fn |-> "PgmBankRead_4000", parm |-> a - 32768]
      [] OTHER -> [fn |-> "NoRead", parm |-> a]

\* The read handler ApplyMemoryMap() leaves on each address, with the
\* mapper's PRG handlers over 0x8000-0xFFFF when a cartridge is present.
ReadFunc(b, a) ==
    CASE a < LSN_CPU_START + LSN_CPU_FULL_SIZE ->
            [fn |-> "StdRead",
             parm |-> ((a - LSN_CPU_START) % LSN_INTERNAL_RAM) + LSN_CPU_START]
      [] a = 16406 -> [fn |-> "Read4016", parm |-> 0]
      [] a = 16407 -> [fn |-> "Read4017", parm |-> 0]
      [] a >= Layout.prg /\ b.cart # 0 /\ b.cart # Mapper094 ->
            [fn |-> "PgmBankRead", parm |-> a]
      [] a >= 49152 /\ b.cart = Mapper094 -> [fn |-> "PgmBankRead_Fixed", parm |-> a - 49152]
      [] a >= 32768 /\ a < 49152 /\ b.cart = Mapper094 ->
            [fn |-> "PgmBankRead_4000", parm |-> a - 32768]
      [] OTHER -> [fn |-> "NoRead", parm |-> a]

\* The write handler ApplyMemoryMap() leaves on each address.
WriteFunc(b, a) ==
    CASE a < LSN_CPU_START + LSN_CPU_FULL_SIZE ->
            [fn |-> "StdWrite",
             parm |-> ((a - LSN_CPU_START) % LSN_INTERNAL_RAM) + LSN_CPU_START]
      [] a = 16404 -> [fn |-> "Write4014", parm |-> a]
      [] a = 16406 -> [fn |-> "Write4016", parm |-> 0]
      [] a >= 32768 /\ b.cart = Mapper094 -> [fn |-> "SelectBank", parm |-> 0]
      [] OTHER -> [fn |-> "NoWrite", parm |-> a]

\* CCpu6502::BeginDma().
\* A BeginDma() that takes the byte written as the address itself.
BeginDma_NoShift(m, val) ==
    [m EXCEPT !.cpu.m_pfTickFunc = "Tick_Dma",
              !.cpu.dmaState = "LSN_DS_IDLE",
              !.cpu.dmaPhi2 = FALSE,
              !.cpu.m_ui16DmaAddress = val,
              !.cpu.m_bDmaGo = FALSE]

\* A BeginDma() that saves the DMA tick as the tick to return to.
BeginDma_ClobberCopy(m, val) ==
    [m EXCEPT !.cpu.m_pfTickFunc = "Tick_Dma",
              !.cpu.m_pfTickFuncCopy = "Tick_Dma",
              !.cpu.dmaState = "LSN_DS_IDLE",
              !.cpu.dmaPhi2 = FALSE,
              !.cpu.m_ui16DmaAddress = U16(val * 256),
              !.cpu.m_bDmaGo = FALSE]

\* CCpu6502::BeginDma(): the tick function becomes
\* Tick_Dma<LSN_DS_IDLE, false>; m_pfTickFuncCopy stays.
BeginDma(m, val) ==
    [m EXCEPT !.cpu.m_pfTickFunc = "Tick_Dma",
              !.cpu.dmaState = "LSN_DS_IDLE",
              !.cpu.dmaPhi2 = FALSE,
              !.cpu.m_ui16DmaAddress = U16(val * 256),
              !.cpu.m_bDmaGo = FALSE]

\* CCpu6502::Read4016() / Read4017(): the MSB of the shift register, which
\* then shifts left.  i is the port (1 or 2).
ReadInputs(m, i) ==
    [m   |-> [m EXCEPT !.cpu.m_ui8InputsState[i] = U8(@ * 2)],
     ret |-> IF HasBit(m.cpu.m_ui8InputsState[i], 128) THEN 1 ELSE 0]

\* CCpu6502::Write4016().  m_pipPoller is -1 for a null poller, else the
\* byte PollPort( 0 ) returns.
Write4016(m, val) ==
    LET poll == IF m.cpu.m_pipPoller # -1 THEN m.cpu.m_pipPoller ELSE 0
    IN  [m EXCEPT !.cpu.m_ui8Inputs[1] = BitOr(BitAnd(@, 248), BitAnd(val, 7)),
                  !.cpu.m_ui8InputsPoll[1] = poll,
                  !.cpu.m_ui8InputsState[1] = poll]

\* The byte at index i of the PRG ROM rom.
PrgByte(rom, i) == Cell(rom.patch, i, (i + 37 * (i \div 16384)) % 256)

\* CMapperBase::PgmBankRead_Fixed: the byte at parm past the fixed offset.
PgmBankRead_Fixed(m, parm) == PrgByte(m.mapper.prg, m.mapper.m_stFixedOffset + parm)

\* CMapperBase::PgmBankRead_4000: the byte at parm of the selected bank.
PgmBankRead_4000(m, parm) == PrgByte(m.mapper.prg, m.mapper.m_ui8PgmBank * 16384 + parm)

\* A bank select that forgets the number of banks.
SelectBank_NoModulo(m, val) ==
    [m EXCEPT !.mapper.m_ui8PgmBank = BitAnd(val, m.mapper.m_ui8Mask) \div 4]

\* CMapper094::SelectBank.
SelectBank(m, val) ==
    [m EXCEPT !.mapper.m_ui8PgmBank =
        (BitAnd(val, m.mapper.m_ui8Mask) \div 4) % (m.mapper.prg.size \div 16384)]

\* What the read handler of address a produces.
CallRead(m, a) ==
    LET h == ReadFunc(m.bus, a)
    IN  CASE h.fn = "StdRead"     -> [m |-> m, ret |-> Cell(m.bus.ram, h.parm, 0)]
          [] h.fn = "Read4016"    -> ReadInputs(m, 1)
          [] h.fn = "Read4017"    -> ReadInputs(m, 2)
          [] h.fn = "PgmBankRead" -> [m |-> m, ret |-> Rom(m.bus.cart, a)]
          [] h.fn = "PgmBankRead_Fixed" -> [m |-> m, ret |-> PgmBankRead_Fixed(m, h.parm)]
          [] h.fn = "PgmBankRead_4000"  -> [m |-> m, ret |-> PgmBankRead_4000(m, h.parm)]
          [] OTHER                -> [m |-> m, ret |-> m.bus.openBus]

\* What the write handler of address a does with val.
CallWrite(m, a, val) ==
    LET h == WriteFunc(m.bus, a)
    IN  CASE h.fn = "StdWrite"  -> [m EXCEPT !.bus.ram = Put(@, h.parm, val)]
          [] h.fn = "Write4014" -> BeginDma(m, val)
          [] h.fn = "Write4016" -> Write4016(m, val)
          [] h.fn = "SelectBank" -> SelectBank(m, val)
          [] OTHER              -> m

\* The bits the handler drives, over the bits left floating.
FloatMix(ret, before, mask) == BitOr(BitClear(ret, mask), BitAnd(before, mask))

\* A read that returns the mixed byte but leaves the latch as it was.
BusRead_KeepLatch(m, a) ==
    LET Latch(h, val) ==
          [m   |-> [h.m EXCEPT !.bus.log = Append(@, [addr |-> a, val |-> val, read |-> TRUE])],
           val |-> val]
        Mix(h) == Latch(h, FloatMix(h.ret, m.bus.openBus, FloatMask(h.m.bus, a)))
    IN  Mix(CallRead(m, a))

\* A read on the bus: [m |-> the machine after it, val |-> the byte read].
BusRead(m, a) ==
    LET Latch(h, val) ==
          [m   |-> [h.m EXCEPT !.bus.openBus = val,
                               !.bus.log = Append(@, [addr |-> a, val |-> val, read |-> TRUE])],
           val |-> val]
        Mix(h) == Latch(h, FloatMix(h.ret, m.bus.openBus, FloatMask(h.m.bus, a)))
    IN  Mix(CallRead(m, a))

\* A write on the bus.
BusWrite(m, a, val) ==
    CallWrite([m EXCEPT !.bus.openBus = val,
                        !.bus.log = Append(@, [addr |-> a, val |-> val, read |-> FALSE])],
              a, val)

---------------------------------------------------------------------------
(* The micro-step machinery.  Every instruction is an array of micro-step  *)
(* functions indexed by m_ui8FuncIndex: entry 0 is the opcode fetch (a     *)
(* phi2 function), after which phi1 and phi2 functions alternate; the last *)
(* entry is a phi1 function that begins the next instruction.              *)

Tag(m, t) == [m EXCEPT !.order = Append(@, t)]

\* LSN_NEXT_FUNCTION_BY( n ) and LSN_NEXT_FUNCTION.
NextFunctionBy(m, n) == [m EXCEPT !.cpu.m_ui8FuncIndex = @ + n]

NextFunction(m) == NextFunctionBy(m, 1)

\* LSN_CHECK_INTERRUPTS: the poll.
\* A poll that looks at the IRQ whether or not an NMI is detected.
CheckInterrupts_IrqAlso(m) ==
    LET Irqs(b) ==
          IF m.cpu.m_bIrqStatusPhi1Flag /\ ~HasBit(m.cpu.ui8Status, LSN_SF_IRQ)
          THEN [b EXCEPT !.cpu.m_bHandleIrq = TRUE]
          ELSE b
    IN  Irqs(IF m.cpu.m_bDetectedNmi THEN [m EXCEPT !.cpu.m_bHandleNmi = TRUE] ELSE m)

CheckInterrupts(m) ==
    IF m.cpu.m_bDetectedNmi
    THEN [m EXCEPT !.cpu.m_bHandleNmi = TRUE]
    ELSE IF m.cpu.m_bIrqStatusPhi1Flag /\ ~HasBit(m.cpu.ui8Status, LSN_SF_IRQ)
         THEN [m EXCEPT !.cpu.m_bHandleIrq = TRUE]
         ELSE m

\* LSN_FINISH_INST( check ).
FinishInst(m, check) ==
    NextFunction(IF check THEN CheckInterrupts(m) ELSE m)

\* _bEndInstr ? LSN_FINISH_INST( true ) : LSN_NEXT_FUNCTION.
EndOrNext(m, bEndInstr) ==
    IF bEndInstr THEN FinishInst(m, TRUE) ELSE NextFunction(m)

\* LSN_UPDATE_PC.
UpdatePc(m) ==
    [m EXCEPT !.cpu.PC = IF m.cpu.m_bAllowWritingToPc
                         THEN U16(@ + m.cpu.m_ui16PcModify) ELSE @,
              !.cpu.m_ui16PcModify = 0]

\* LSN_UPDATE_S.
UpdateS(m) ==
    [m EXCEPT !.cpu.S = U8(@ + m.cpu.m_ui8SModify),
              !.cpu.m_ui8SModify = 0]

StackAddr(m, off) == 256 + U8(m.cpu.S + 256 + off)

\* LSN_PUSH( val ) with the template offset off: a write to the stack page
\* (a read while the reset sequence runs); S moves at the next LSN_UPDATE_S.
Push(m, off, val) ==
    LET a  == StackAddr(m, off)
        m1 == IF m.cpu.resetSeq THEN BusRead(m, a).m ELSE BusWrite(m, a, val)
    IN  [m1 EXCEPT !.cpu.m_ui8SModify = U8(256 + off - 1)]

\* LSN_POP( reg ) with the template offset off.
Pop(m, off) ==
    LET Popped(r) == [m |-> [r.m EXCEPT !.cpu.m_ui8SModify = U8(off + 1)], val |-> r.val]
    IN  Popped(BusRead(m, StackAddr(m, off)))

\* BeginInst(): the next micro-step is the opcode fetch.
BeginInst(m) ==
    [m EXCEPT !.cpu.m_ui8FuncIndex = 0, !.cpu.resetSeq = FALSE]

---------------------------------------------------------------------------
(* The micro-step functions.                                               *)

\* An opcode fetch that overlooks a pending IRQ.
Fetch_Opcode_IgnoreIrq(m) ==
    LET int == m.cpu.m_bHandleNmi \/ m.cpu.m_bIsReset
        Fetched(r) ==
          [r.m EXCEPT !.cpu.m_ui16OpCode = IF int THEN 0 ELSE r.val,
                      !.cpu.m_ui16PcModify = IF int THEN 0 ELSE 1,
                      !.cpu.m_bAllowWritingToPc = IF int THEN FALSE ELSE @]
    IN  NextFunction(Fetched(BusRead(m, m.cpu.PC)))

\* An opcode fetch that overlooks a pending reset.
Fetch_Opcode_IgnoreReset(m) ==
    LET int == m.cpu.m_bHandleNmi \/ m.cpu.m_bHandleIrq
        Fetched(r) ==
          [r.m EXCEPT !.cpu.m_ui16OpCode = IF int THEN 0 ELSE r.val,
                      !.cpu.m_ui16PcModify = IF int THEN 0 ELSE 1,
                      !.cpu.m_bAllowWritingToPc = IF int THEN FALSE ELSE @]
    IN  NextFunction(Fetched(BusRead(m, m.cpu.PC)))

\* An opcode fetch that runs the fetched byte though an interrupt is due.
Fetch_Opcode_KeepByte(m) ==
    LET int == m.cpu.m_bHandleNmi \/ m.cpu.m_bHandleIrq \/ m.cpu.m_bIsReset
        Fetched(r) ==
          [r.m EXCEPT !.cpu.m_ui16OpCode = r.val,
                      !.cpu.m_ui16PcModify = IF int THEN 0 ELSE 1,
                      !.cpu.m_bAllowWritingToPc = IF int THEN FALSE ELSE @]
    IN  NextFunction(Fetched(BusRead(m, m.cpu.PC)))

Fetch_Opcode_IncPc_Phi2(m) ==
    LET int == /\ ~m.cpu.LSN_CPU_VERIFY
               /\ m.cpu.m_bHandleNmi \/ m.cpu.m_bHandleIrq \/ m.cpu.m_bIsReset
        Fetched(r) ==
          [r.m EXCEPT !.cpu.m_ui16OpCode = IF int THEN 0 ELSE r.val,
                      !.cpu.m_ui16PcModify = IF int THEN 0 ELSE 1,
                      !.cpu.m_bAllowWritingToPc = IF int THEN FALSE ELSE @]
    IN  NextFunction(Fetched(BusRead(m, m.cpu.PC)))

Fetch_Operand_Discard_Phi2(m, bEndInstr) ==
    EndOrNext(BusRead(m, m.cpu.PC).m, bEndInstr)

Fetch_Operand_IncPc_Phi2(m, bEndInstr) ==
    LET Fetched(r) == [r.m EXCEPT !.cpu.m_ui8Operand = r.val,
                                  !.cpu.m_ui16PcModify = 1]
    IN  EndOrNext(Fetched(BusRead(m, m.cpu.PC)), bEndInstr)

\* _bToAddr = true.
Fetch_Operand_To_AddrOrPtr_IncPc_Phi2(m) ==
    LET Fetched(r) == [r.m EXCEPT !.cpu.m_ui16Address = r.val,
                                  !.cpu.m_ui16PcModify = 1]
    IN  NextFunction(Fetched(BusRead(m, m.cpu.PC)))

\* _bToAddr = true.
Fetch_Operand_To_AddrOrPtr_H_IncPc_Phi2(m, bEndInstr) ==
    LET Fetched(r) == [r.m EXCEPT !.cpu.m_ui16Address = Word(Lo(@), r.val),
                                  !.cpu.m_ui16PcModify = 1]
    IN  EndOrNext(Fetched(BusRead(m, m.cpu.PC)), bEndInstr)

\* Fetch_Operand_To_AddrOrPtr_IncPc_Phi2<false>: the byte at PC becomes
\* m_ui16Pointer.
Fetch_Operand_To_AddrOrPtr_IncPc_Phi2_ToPtr(m) ==
    LET Fetched(r) == [r.m EXCEPT !.cpu.m_ui16Pointer = r.val,
                                  !.cpu.m_ui16PcModify = 1]
    IN  NextFunction(Fetched(BusRead(m, m.cpu.PC)))

\* Fetch_Operand_To_AddrOrPtr_H_IncPc_Phi2<false, _bEndInstr>.
Fetch_Operand_To_AddrOrPtr_H_IncPc_Phi2_ToPtr(m, bEndInstr) ==
    LET Fetched(r) == [r.m EXCEPT !.cpu.m_ui16Pointer = Word(Lo(@), r.val),
                                  !.cpu.m_ui16PcModify = 1]
    IN  EndOrNext(Fetched(BusRead(m, m.cpu.PC)), bEndInstr)

\* Read_PtrOrAddr_To_AddrOrPtr_L_Phi2<false>: the byte at m_ui16Pointer
\* becomes m_ui16Address.
Read_PtrOrAddr_To_AddrOrPtr_L_Phi2(m) ==
    LET Got(r) == [r.m EXCEPT !.cpu.m_ui16Address = r.val]
    IN  NextFunction(Got(BusRead(m, m.cpu.m_ui16Pointer)))

\* A high-byte read that carries into the page of the pointer.
Read_PtrOrAddr_To_AddrOrPtr_H_NextPage_Phi2(m, bEndInstr) ==
    LET Got(r) == [r.m EXCEPT !.cpu.m_ui16Address = Word(Lo(@), r.val)]
    IN  EndOrNext(Got(BusRead(m, U16(m.cpu.m_ui16Pointer + 1))), bEndInstr)

\* Read_PtrOrAddr_To_AddrOrPtr_H_SamePage_Phi2<false, _bEndInstr>: the high
\* byte of m_ui16Address is read from the page of the pointer, the low byte
\* of the pointer plus one, without a carry.
Read_PtrOrAddr_To_AddrOrPtr_H_SamePage_Phi2(m, bEndInstr) ==
    LET Got(r) == [r.m EXCEPT !.cpu.m_ui16Address = Word(Lo(@), r.val)]
        a == Word(U8(Lo(m.cpu.m_ui16Pointer) + 1), Hi(m.cpu.m_ui16Pointer))
    IN  EndOrNext(Got(BusRead(m, a)), bEndInstr)

\* Read_PtrOrAddr_To_AddrOrPtr_H_8Bit_Phi2<false>: the high byte of
\* m_ui16Address is read from page zero.
Read_PtrOrAddr_To_AddrOrPtr_H_8Bit_Phi2(m) ==
    LET Got(r) == [r.m EXCEPT !.cpu.m_ui16Address = Word(Lo(@), r.val)]
    IN  NextFunction(Got(BusRead(m, U8(m.cpu.m_ui16Pointer + 1))))

\* The address plus an index, not yet fixed: m_ui16Target is the sum,
\* m_ui16Pointer its low byte in the page of the address.
AddIndex(m, i) ==
    LET t == U16(m.cpu.m_ui16Address + i)
    IN  [m EXCEPT !.cpu.m_ui16Target = t,
                  !.cpu.m_ui16Pointer = Word(Lo(t), Hi(m.cpu.m_ui16Address)),
                  !.cpu.m_bBoundaryCrossed = Hi(m.cpu.m_ui16Address) # Hi(t)]

\* Add_XAndPtrOrAddr_To_AddrOrPtr<false, _bRead, _bIncPc>.
Add_XAndPtrOrAddr_To_AddrOrPtr(m, bIncPc) ==
    NextFunction(AddIndex(IF bIncPc THEN UpdatePc(m) ELSE m, m.cpu.X))

\* Add_YAndPtrOrAddr_To_AddrOrPtr<false, _bRead, _bIncPc>.
Add_YAndPtrOrAddr_To_AddrOrPtr(m, bIncPc) ==
    NextFunction(AddIndex(IF bIncPc THEN UpdatePc(m) ELSE m, m.cpu.Y))

\* IndirectYAdd_PtrOrAddr_To_AddrOrPtr<true>.
IndirectYAdd_PtrOrAddr_To_AddrOrPtr(m) == NextFunction(AddIndex(m, m.cpu.Y))

\* A fix that leaves the high byte as it is.
Fix_PtrOrAddr_To_AddrOrPtr_H_NoFix(m) == NextFunction(m)

\* Fix_PtrOrAddr_To_AddrOrPtr_H<true>.
Fix_PtrOrAddr_To_AddrOrPtr_H(m) ==
    NextFunction([m EXCEPT !.cpu.m_ui16Pointer = Word(Lo(@), Hi(m.cpu.m_ui16Target))])

\* Read_PtrOrAddr_To_Operand_Phi2<false, _bEndInstr>.
Read_PtrOrAddr_To_Operand_Phi2(m, bEndInstr) ==
    LET Got(r) == [r.m EXCEPT !.cpu.m_ui8Operand = r.val]
    IN  EndOrNext(Got(BusRead(m, m.cpu.m_ui16Pointer)), bEndInstr)

\* A boundary skip that never takes the extra cycle.
Read_PtrOrAddr_To_Operand_AlwaysSkip_Phi2(m, bEndInstr) ==
    LET Got(r) == [r.m EXCEPT !.cpu.m_ui8Operand = r.val]
    IN  NextFunctionBy(EndOrNext(Got(BusRead(m, m.cpu.m_ui16Pointer)), bEndInstr), 2)

\* Read_PtrOrAddr_To_Operand_BoundarySkip_Phi2<false, _bEndInstr>: when no
\* page boundary was crossed the byte read is the operand and the next two
\* micro-steps are skipped.
Read_PtrOrAddr_To_Operand_BoundarySkip_Phi2(m, bEndInstr) ==
    LET Got(r) == [r.m EXCEPT !.cpu.m_ui8Operand = r.val]
        Skip(g) == IF ~m.cpu.m_bBoundaryCrossed
                   THEN NextFunctionBy(EndOrNext(g, bEndInstr), 2)
                   ELSE NextFunction(g)
    IN  Skip(Got(BusRead(m, m.cpu.m_ui16Pointer)))

Null(m, bRead, bIncPc, bAdjS, bBeginInstr) ==
    LET m1 == IF bIncPc THEN UpdatePc(m) ELSE m
        m2 == IF bAdjS THEN UpdateS(m1) ELSE m1
    IN  IF bBeginInstr THEN BeginInst(m2) ELSE NextFunction(m2)

\* A Jam() that a latched NMI edge gets out of.
Jam_NmiResumes(m) ==
    IF m.cpu.m_bDetectedNmi
    THEN BeginInst([m EXCEPT !.cpu.m_bHandleNmi = TRUE])
    ELSE NextFunction(
           [m EXCEPT !.cpu.PC = IF m.cpu.m_bAllowWritingToPc
                                THEN U16(@ + 65536 - m.cpu.m_ui16PcModify) ELSE @,
                     !.cpu.m_ui16PcModify = 0])

Jam(m) ==
    NextFunction(
      [m EXCEPT !.cpu.PC = IF m.cpu.m_bAllowWritingToPc
                           THEN U16(@ + 65536 - m.cpu.m_ui16PcModify) ELSE @,
                !.cpu.m_ui16PcModify = 0])

\* A jammed cycle that leaves the bus alone.
Jam_Phi2_NoRead(m) == NextFunctionBy(m, -1)

Jam_Phi2(m) == NextFunctionBy(BusRead(m, U16(m.cpu.PC + 1)).m, -1)

\* A PHP that pushes the status without B.
Php_NoBreak(m) ==
    NextFunction([m EXCEPT !.cpu.m_ui8Operand = BitOr(m.cpu.ui8Status, LSN_SF_RESERVED)])

Php(m) ==
    NextFunction([m EXCEPT !.cpu.m_ui8Operand =
                     BitOr(m.cpu.ui8Status, LSN_SF_BREAK + LSN_SF_RESERVED)])

\* A pull of the status that leaves bit 5 as it is on the stack.
Plp_BeginInst_NoReserved(m) ==
    [BeginInst(m) EXCEPT !.cpu.ui8Status = BitClear(m.cpu.m_ui8Operand, LSN_SF_BREAK)]

\* A pull of the status that keeps bit 4 of the pulled byte.
Plp_BeginInst_KeepBreak(m) ==
    [BeginInst(m) EXCEPT !.cpu.ui8Status = BitOr(m.cpu.m_ui8Operand, LSN_SF_RESERVED)]

Plp_BeginInst(m) ==
    [BeginInst(m) EXCEPT !.cpu.ui8Status =
        BitOr(BitClear(m.cpu.m_ui8Operand, LSN_SF_BREAK), LSN_SF_RESERVED)]

Pull_To_Operand_Phi2(m, off) ==
    LET Pulled(r) == [r.m EXCEPT !.cpu.m_ui8Operand = r.val]
    IN  NextFunction(Pulled(Pop(m, off)))

\* Pull_To_Target_H_Phi2<_i8SOff, _bEndInstr>: LSN_POP( m_ui8Target[0] ), the
\* byte pulled goes to byte 0 of m_ui16Target.
Pull_To_Target_H_Phi2(m, off, bEndInstr) ==
    LET Pulled(r) == [r.m EXCEPT !.cpu.m_ui16Target = Word(r.val, Hi(@))]
    IN  EndOrNext(Pulled(Pop(m, off)), bEndInstr)

Pull_To_Target_L_Phi2(m, off) ==
    LET Pulled(r) == [r.m EXCEPT !.cpu.m_ui16Target = Word(r.val, Hi(@))]
    IN  NextFunction(Pulled(Pop(m, off)))

Push_Operand_Phi2(m, off, bEndInstr) ==
    EndOrNext(Push(m, off, m.cpu.m_ui8Operand), bEndInstr)

Push_Pc_H_Phi2(m, off) == NextFunction(Push(m, off, Hi(m.cpu.PC)))

Push_Pc_L_Phi2(m, off) == NextFunction(Push(m, off, Lo(m.cpu.PC)))

Push_S_Phi2(m, off) ==
    NextFunction(
      Push(m, off, IF m.cpu.m_bPushB
                   THEN BitOr(m.cpu.ui8Status, LSN_SF_BREAK)
                   ELSE m.cpu.ui8Status))

Read_Stack_To_Operand_Phi2(m, bEndInstr) ==
    LET Got(r) == [r.m EXCEPT !.cpu.m_ui8Operand = r.val]
    IN  EndOrNext(Got(BusRead(m, StackAddr(m, 0))), bEndInstr)

Read_Stack_To_Target_H_Phi2(m, off, bEndInstr) ==
    LET Got(r) == [r.m EXCEPT !.cpu.m_ui16Target = Word(Lo(@), r.val)]
    IN  EndOrNext(Got(BusRead(m, StackAddr(m, off))), bEndInstr)

CopyOperandToStatusWithoutB(m) ==
    LET ui8Mask == LSN_SF_RESERVED + LSN_SF_BREAK
    IN  NextFunction([m EXCEPT !.cpu.ui8Status =
                         BitOr(BitClear(m.cpu.m_ui8Operand, ui8Mask), BitAnd(@, ui8Mask))])

Rti_BeginInst(m) ==
    [UpdateS(BeginInst(m)) EXCEPT !.cpu.PC = m.cpu.m_ui16Target]

\* A vector selection that looks at the NMI before the reset.
SelectBrkVectors_NmiFirst(m) ==
    LET c  == m.cpu
        c1 == CASE c.m_bDetectedNmi ->
                     [c EXCEPT !.m_vBrkVector = LSN_V_NMI, !.m_bPushB = FALSE]
                [] ~c.m_bDetectedNmi /\ c.m_bIsReset ->
                     [c EXCEPT !.m_vBrkVector = LSN_V_RESET, !.m_bPushB = FALSE,
                               !.m_bIsReset = FALSE]
                [] ~c.m_bIsReset /\ ~c.m_bDetectedNmi /\ c.m_bHandleIrq ->
                     [c EXCEPT !.m_vBrkVector = LSN_V_IRQ_BRK, !.m_bPushB = FALSE]
                [] OTHER ->
                     [c EXCEPT !.m_vBrkVector = LSN_V_IRQ_BRK, !.m_bPushB = TRUE]
        c2 == IF c1.m_bDetectedNmi
              THEN [c1 EXCEPT !.m_bHandleNmi = FALSE, !.m_bDetectedNmi = FALSE,
                              !.m_bNmiStatusLine = FALSE]
              ELSE c1
    IN  NextFunction([m EXCEPT !.cpu = [c2 EXCEPT !.m_bHandleIrq = FALSE]])

\* A vector selection that leaves m_bIsReset set.
SelectBrkVectors_KeepReset(m) ==
    LET c  == m.cpu
        c1 == CASE c.m_bIsReset ->
                     [c EXCEPT !.m_vBrkVector = LSN_V_RESET, !.m_bPushB = FALSE]
                [] ~c.m_bIsReset /\ c.m_bDetectedNmi ->
                     [c EXCEPT !.m_vBrkVector = LSN_V_NMI, !.m_bPushB = FALSE]
                [] ~c.m_bIsReset /\ ~c.m_bDetectedNmi /\ c.m_bHandleIrq ->
                     [c EXCEPT !.m_vBrkVector = LSN_V_IRQ_BRK, !.m_bPushB = FALSE]
                [] OTHER ->
                     [c EXCEPT !.m_vBrkVector = LSN_V_IRQ_BRK, !.m_bPushB = TRUE]
        c2 == IF c1.m_bDetectedNmi
              THEN [c1 EXCEPT !.m_bHandleNmi = FALSE, !.m_bDetectedNmi = FALSE,
                              !.m_bNmiStatusLine = FALSE]
              ELSE c1
    IN  NextFunction([m EXCEPT !.cpu = [c2 EXCEPT !.m_bHandleIrq = FALSE]])

\* A vector selection that serves a detected NMI and leaves it detected.
SelectBrkVectors_KeepsNmi(m) ==
    LET c  == m.cpu
        c1 == CASE c.m_bIsReset ->
                     [c EXCEPT !.m_vBrkVector = LSN_V_RESET, !.m_bPushB = FALSE,
                               !.m_bIsReset = FALSE, !.m_bHandleNmi = FALSE,
                               !.m_bDetectedNmi = FALSE,
                               !.m_bNmiStatusLine = @ /\ ~c.m_bDetectedNmi]
                [] ~c.m_bIsReset /\ c.m_bDetectedNmi ->
                     [c EXCEPT !.m_vBrkVector = LSN_V_NMI, !.m_bPushB = FALSE]
                [] ~c.m_bIsReset /\ ~c.m_bDetectedNmi /\ c.m_bHandleIrq ->
                     [c EXCEPT !.m_vBrkVector = LSN_V_IRQ_BRK, !.m_bPushB = FALSE]
                [] OTHER ->
                     [c EXCEPT !.m_vBrkVector = LSN_V_IRQ_BRK, !.m_bPushB = TRUE]
    IN  NextFunction([m EXCEPT !.cpu = [c1 EXCEPT !.m_bHandleIrq = FALSE]])

\* A vector selection that, with the reset pending, leaves a detected NMI
\* detected.
SelectBrkVectors_ResetKeepsNmi(m) ==
    LET c  == m.cpu
        c1 == CASE c.m_bIsReset ->
                     [c EXCEPT !.m_vBrkVector = LSN_V_RESET, !.m_bPushB = FALSE,
                               !.m_bIsReset = FALSE]
                [] ~c.m_bIsReset /\ c.m_bDetectedNmi ->
                     [c EXCEPT !.m_vBrkVector = LSN_V_NMI, !.m_bPushB = FALSE,
                               !.m_bHandleNmi = FALSE, !.m_bDetectedNmi = FALSE,
                               !.m_bNmiStatusLine = FALSE]
                [] ~c.m_bIsReset /\ ~c.m_bDetectedNmi /\ c.m_bHandleIrq ->
                     [c EXCEPT !.m_vBrkVector = LSN_V_IRQ_BRK, !.m_bPushB = FALSE]
                [] OTHER ->
                     [c EXCEPT !.m_vBrkVector = LSN_V_IRQ_BRK, !.m_bPushB = TRUE]
    IN  NextFunction([m EXCEPT !.cpu = [c1 EXCEPT !.m_bHandleIrq = FALSE]])

SelectBrkVectors(m) ==
    LET c  == m.cpu
        c1 == CASE c.LSN_CPU_VERIFY ->
                     [c EXCEPT !.m_vBrkVector = LSN_V_IRQ_BRK, !.m_bPushB = TRUE]
                [] ~c.LSN_CPU_VERIFY /\ c.m_bIsReset ->
                     [c EXCEPT !.m_vBrkVector = LSN_V_RESET, !.m_bPushB = FALSE,
                               !.m_bIsReset = FALSE]
                [] ~c.LSN_CPU_VERIFY /\ ~c.m_bIsReset /\ c.m_bDetectedNmi ->
                     [c EXCEPT !.m_vBrkVector = LSN_V_NMI, !.m_bPushB = FALSE]
                [] ~c.LSN_CPU_VERIFY /\ ~c.m_bIsReset /\ ~c.m_bDetectedNmi
                       /\ c.m_bHandleIrq ->
                     [c EXCEPT !.m_vBrkVector = LSN_V_IRQ_BRK, !.m_bPushB = FALSE]
                [] OTHER ->
                     [c EXCEPT !.m_vBrkVector = LSN_V_IRQ_BRK, !.m_bPushB = TRUE]
        c2 == IF c1.m_bDetectedNmi /\ ~c.LSN_CPU_VERIFY
              THEN [c1 EXCEPT !.m_bHandleNmi = FALSE, !.m_bDetectedNmi = FALSE,
                              !.m_bNmiStatusLine = FALSE]
              ELSE c1
    IN  NextFunction([m EXCEPT !.cpu = [c2 EXCEPT !.m_bHandleIrq =
                                                      @ /\ c.LSN_CPU_VERIFY]])

SetBrkFlags(m) ==
    NextFunction(
      [m EXCEPT !.cpu.ui8Status = SetBit(LSN_SF_BREAK, SetBit(LSN_SF_IRQ, @, TRUE), FALSE),
                !.cpu.m_bAllowWritingToPc = TRUE])

CopyVectorToPc_L_Phi2(m) ==
    LET Got(r) == [r.m EXCEPT !.cpu.m_ui16Address = Word(r.val, Hi(@))]
    IN  NextFunction(Got(BusRead(m, m.cpu.m_vBrkVector)))

CopyVectorToPc_H_Phi2(m, bEndInstr) ==
    LET Got(r) == [r.m EXCEPT !.cpu.m_ui16Address = Word(Lo(@), r.val)]
    IN  EndOrNext(Got(BusRead(m, U16(m.cpu.m_vBrkVector + 1))), bEndInstr)

Brk_BeginInst(m) == [BeginInst(m) EXCEPT !.cpu.PC = m.cpu.m_ui16Address]

\* A CLI that leaves the I flag as it is.
Cli_BeginInst_KeepsI(m) == BeginInst(m)

Cli_BeginInst(m) ==
    [BeginInst(m) EXCEPT !.cpu.ui8Status = SetBit(LSN_SF_IRQ, @, FALSE)]

Sei_BeginInst(m) ==
    [BeginInst(m) EXCEPT !.cpu.ui8Status = SetBit(LSN_SF_IRQ, @, TRUE)]

Jmp_BeginInst(m) ==
    [BeginInst(m) EXCEPT !.cpu.PC = m.cpu.m_ui16Address, !.cpu.m_ui16PcModify = 0]

\* A sign-extended byte, as a 16-bit word.
SignExtend(b) == IF b >= 128 THEN 65280 + b ELSE b

\* Branch_Cycle1<_uBit, _uVal>.
Branch_Cycle1(m, uBit, uVal) ==
    NextFunction(UpdatePc([m EXCEPT !.cpu.m_bTakeJump =
                               (HasBit(m.cpu.ui8Status, uBit) <=> (uVal = 1))]))

\* A branch that compares the target with the page of the operand byte.
Branch_Cycle1_Phi2_PageOfOperand(m) ==
    LET Go(b, pc) ==
          NextFunction(
            IF Hi(U16(SignExtend(b.cpu.m_ui8Operand) + pc)) # Hi(b.cpu.PC)
            THEN [b EXCEPT !.cpu.PC = pc, !.cpu.m_ui16PcModify = 0,
                           !.cpu.m_ui16Address = U16(SignExtend(b.cpu.m_ui8Operand) + pc),
                           !.cpu.m_bBoundaryCrossed = TRUE]
            ELSE CheckInterrupts(
                   [b EXCEPT !.cpu.PC = pc, !.cpu.m_ui16PcModify = 0,
                             !.cpu.m_ui16Address = U16(SignExtend(b.cpu.m_ui8Operand) + pc),
                             !.cpu.m_bBoundaryCrossed = FALSE]))
        Fetched(r) ==
          IF ~m.cpu.m_bTakeJump
          THEN FinishInst([r.m EXCEPT !.cpu.m_ui8Operand = r.val,
                                      !.cpu.m_ui16PcModify = 1], TRUE)
          ELSE Go([r.m EXCEPT !.cpu.m_ui8Operand = r.val], U16(m.cpu.PC + 1))
    IN  Fetched(BusRead(m, m.cpu.PC))

Branch_Cycle1_Phi2(m) ==
    LET Go(b, pc) ==
          NextFunction(
            IF Hi(U16(SignExtend(b.cpu.m_ui8Operand) + pc)) # Hi(pc)
            THEN [b EXCEPT !.cpu.PC = pc, !.cpu.m_ui16PcModify = 0,
                           !.cpu.m_ui16Address = U16(SignExtend(b.cpu.m_ui8Operand) + pc),
                           !.cpu.m_bBoundaryCrossed = TRUE]
            ELSE CheckInterrupts(
                   [b EXCEPT !.cpu.PC = pc, !.cpu.m_ui16PcModify = 0,
                             !.cpu.m_ui16Address = U16(SignExtend(b.cpu.m_ui8Operand) + pc),
                             !.cpu.m_bBoundaryCrossed = FALSE]))
        Fetched(r) ==
          IF ~m.cpu.m_bTakeJump
          THEN FinishInst([r.m EXCEPT !.cpu.m_ui8Operand = r.val,
                                      !.cpu.m_ui16PcModify = 1], TRUE)
          ELSE Go([r.m EXCEPT !.cpu.m_ui8Operand = r.val], U16(m.cpu.PC + 1))
    IN  Fetched(BusRead(m, m.cpu.PC))

Branch_Cycle2(m) ==
    IF ~m.cpu.m_bTakeJump THEN BeginInst(UpdatePc(m)) ELSE NextFunction(UpdatePc(m))

Branch_Cycle2_Phi2(m) ==
    IF ~m.cpu.m_bBoundaryCrossed
    THEN FinishInst(BusRead(m, m.cpu.PC).m, FALSE)
    ELSE NextFunction(BusRead(m, m.cpu.PC).m)

Branch_Cycle3(m) ==
    IF ~m.cpu.m_bBoundaryCrossed
    THEN BeginInst([m EXCEPT !.cpu.PC = Word(Lo(m.cpu.m_ui16Address), Hi(@))])
    ELSE NextFunction([m EXCEPT !.cpu.PC = Word(Lo(m.cpu.m_ui16Address), Hi(@))])

\* The last cycle of a branch across a page, without the poll.
Branch_Cycle3_Phi2_NoPoll(m) == FinishInst(BusRead(m, m.cpu.PC).m, FALSE)

Branch_Cycle3_Phi2(m) == FinishInst(BusRead(m, m.cpu.PC).m, TRUE)

Branch_Cycle4(m) ==
    [BeginInst(m) EXCEPT !.cpu.PC = Word(Lo(@), Hi(m.cpu.m_ui16Address))]

\* Lda_BeginInst<_bIncPc>.
Lda_BeginInst(m, bIncPc) ==
    LET Load(b) ==
          [b EXCEPT !.cpu.A = b.cpu.m_ui8Operand,
                    !.cpu.ui8Status =
                        SetBit(LSN_SF_ZERO,
                               SetBit(LSN_SF_NEGATIVE, @, HasBit(b.cpu.m_ui8Operand, 128)),
                               b.cpu.m_ui8Operand = 0)]
    IN  Load(IF bIncPc THEN UpdatePc(BeginInst(m)) ELSE BeginInst(m))

\* An ADC that leaves the carry out of the sum.
Adc_NoCarryIn(c, op) ==
    LET r  == c.A + op
        a7 == HasBit(c.A, 128)
        v  == (a7 = HasBit(op, 128)) /\ (a7 # HasBit(r, 128))
        st == SetBit(LSN_SF_CARRY, SetBit(LSN_SF_OVERFLOW, c.ui8Status, v), r > 255)
    IN  [c EXCEPT !.A = U8(r),
                  !.ui8Status = SetBit(LSN_SF_NEGATIVE,
                                       SetBit(LSN_SF_ZERO, st, U8(r) = 0),
                                       HasBit(U8(r), 128))]

\* CCpu6502::Adc( m_rRegs.ui8A, op ): ui16Result is the 16-bit sum of A, the
\* operand and the carry; V is bit 7 of ~(A ^ op) & (A ^ ui16Result).
Adc(c, op) ==
    LET r  == c.A + op + BitAnd(c.ui8Status, LSN_SF_CARRY)
        a7 == HasBit(c.A, 128)
        v  == (a7 = HasBit(op, 128)) /\ (a7 # HasBit(r, 128))
        st == SetBit(LSN_SF_CARRY, SetBit(LSN_SF_OVERFLOW, c.ui8Status, v), r > 255)
    IN  [c EXCEPT !.A = U8(r),
                  !.ui8Status = SetBit(LSN_SF_NEGATIVE,
                                       SetBit(LSN_SF_ZERO, st, U8(r) = 0),
                                       HasBit(U8(r), 128))]

\* Adc_BeginInst<_bIncPc>.
Adc_BeginInst(m, bIncPc) ==
    LET Add(b) == [b EXCEPT !.cpu = Adc(b.cpu, b.cpu.m_ui8Operand)]
    IN  Add(IF bIncPc THEN UpdatePc(BeginInst(m)) ELSE BeginInst(m))

\* Write_A_To_AddrOrPtr_Phi2<true>: A goes to m_ui16Address.
Write_A_To_AddrOrPtr_Phi2(m) ==
    FinishInst(BusWrite(m, m.cpu.m_ui16Address, m.cpu.A), TRUE)

\* Write_A_To_AddrOrPtr_Phi2<false>: A goes to m_ui16Pointer.
Write_A_To_AddrOrPtr_Phi2_ToPtr(m) ==
    FinishInst(BusWrite(m, m.cpu.m_ui16Pointer, m.cpu.A), TRUE)

\* Ane_IncPc_BeginInst: A = (A | 0xEE) & X & operand, in every build.
Ane_IncPc_BeginInst(m) ==
    LET Ane(b) ==
          [b EXCEPT !.cpu.A = BitAnd(BitAnd(BitOr(@, 238), b.cpu.X), b.cpu.m_ui8Operand),
                    !.cpu.ui8Status =
                        SetNZ(@, BitAnd(BitAnd(BitOr(b.cpu.A, 238), b.cpu.X),
                                        b.cpu.m_ui8Operand))]
    IN  Ane(UpdatePc(BeginInst(m)))

\* An LXA that takes X into the conjunction.
Lxa_IncPc_BeginInst_AndX(m) ==
    LET Val(b) == BitAnd(BitAnd(BitOr(b.cpu.A, IF b.cpu.LSN_CPU_VERIFY THEN 238 ELSE 255),
                                b.cpu.X), b.cpu.m_ui8Operand)
        Lxa(b) == [b EXCEPT !.cpu.A = Val(b), !.cpu.X = Val(b),
                            !.cpu.ui8Status = SetNZ(@, Val(b))]
    IN  Lxa(UpdatePc(BeginInst(m)))

\* Lxa_IncPc_BeginInst: A = X = (A | 0xEE) & operand in the LSN_CPU_VERIFY
\* build, (A | 0xFF) & operand otherwise.
Lxa_IncPc_BeginInst(m) ==
    LET Val(b) == BitAnd(BitOr(b.cpu.A, IF b.cpu.LSN_CPU_VERIFY THEN 238 ELSE 255),
                         b.cpu.m_ui8Operand)
        Lxa(b) == [b EXCEPT !.cpu.A = Val(b), !.cpu.X = Val(b),
                            !.cpu.ui8Status = SetNZ(@, Val(b))]
    IN  Lxa(UpdatePc(BeginInst(m)))

\* A store of the unstable instructions that goes to m_ui16Pointer whether
\* or not a page was crossed.
Sh_Write_NoCorruption(m, reg) ==
    LET hi == Hi(m.cpu.m_ui16Pointer)
        Val(h) == BitAnd(h, reg)
    IN  FinishInst(BusWrite(m, m.cpu.m_ui16Pointer,
                            Val(IF m.cpu.m_bBoundaryCrossed THEN hi ELSE hi + 1)), TRUE)

\* The _bToAddr = false branch shared by Sha_Phi2, Shs_Phi2, Shx_Phi2 and
\* Shy_Phi2 for the register value reg: with a page crossed ui16Val is
\* m_ui8Pointer[1] & reg and goes to m_ui8Pointer[0] | ui16Val << 8;
\* otherwise ui16Val is (m_ui8Pointer[1] + 1) & reg and goes to
\* m_ui16Pointer.
Sh_Write(m, reg) ==
    LET hi == Hi(m.cpu.m_ui16Pointer)
        lo == Lo(m.cpu.m_ui16Pointer)
    IN  IF m.cpu.m_bBoundaryCrossed
        THEN FinishInst(BusWrite(m, Word(lo, BitAnd(hi, reg)), BitAnd(hi, reg)), TRUE)
        ELSE FinishInst(BusWrite(m, m.cpu.m_ui16Pointer, BitAnd(hi + 1, reg)), TRUE)

\* Sha_Phi2<false>.
Sha_Phi2(m) == Sh_Write(m, BitAnd(m.cpu.A, m.cpu.X))

\* Shs_Phi2<false>: S becomes A & X first.
Shs_Phi2(m) ==
    Sh_Write([m EXCEPT !.cpu.S = BitAnd(m.cpu.A, m.cpu.X)], BitAnd(m.cpu.A, m.cpu.X))

\* Shx_Phi2<false>.
Shx_Phi2(m) == Sh_Write(m, m.cpu.X)

\* Shy_Phi2<false>.
Shy_Phi2(m) == Sh_Write(m, m.cpu.Y)

\* Read_PtrOrAddr_To_Operand_Phi2<true, _bEndInstr>: the operand is read
\* from m_ui16Address.
Read_PtrOrAddr_To_Operand_Phi2_FromAddr(m, bEndInstr) ==
    LET Got(r) == [r.m EXCEPT !.cpu.m_ui8Operand = r.val]
    IN  EndOrNext(Got(BusRead(m, m.cpu.m_ui16Address)), bEndInstr)

\* A write of the operand that is left out when it does not end the
\* instruction.
Write_Operand_To_AddrOrPtr_Phi2_NoDummy(m, bEndInstr) ==
    IF bEndInstr
    THEN FinishInst(BusWrite(m, m.cpu.m_ui16Address, m.cpu.m_ui8Operand), TRUE)
    ELSE NextFunction(m)

\* Write_Operand_To_AddrOrPtr_Phi2<true, _bEndInstr>: the operand goes to
\* m_ui16Address.
Write_Operand_To_AddrOrPtr_Phi2(m, bEndInstr) ==
    EndOrNext(BusWrite(m, m.cpu.m_ui16Address, m.cpu.m_ui8Operand), bEndInstr)

\* CCpu6502::Cmp( reg, op ).
Cmp(c, reg, op) ==
    [c EXCEPT !.ui8Status =
        SetBit(LSN_SF_NEGATIVE,
               SetBit(LSN_SF_ZERO, SetBit(LSN_SF_CARRY, @, reg >= op), reg = op),
               HasBit(U8(reg + 256 - op), 128))]

\* A subtraction that adds the operand as it is.
Sbc_NoComplement(c, op) == Adc(c, op)

\* CCpu6502::Sbc( m_rRegs.ui8A, op ): ui16Val is op ^ 0x00FF, ui16Result the
\* 16-bit sum of A, ui16Val and the carry; V is bit 7 of
\* (A ^ ui16Result) & (ui16Val ^ ui16Result).
Sbc(c, op) ==
    LET ui16Val == 255 - op
        r  == c.A + ui16Val + BitAnd(c.ui8Status, LSN_SF_CARRY)
        r7 == HasBit(r, 128)
        v  == (HasBit(c.A, 128) # r7) /\ (HasBit(ui16Val, 128) # r7)
        st == SetBit(LSN_SF_CARRY, SetBit(LSN_SF_OVERFLOW, c.ui8Status, v), r > 255)
    IN  [c EXCEPT !.A = U8(r),
                  !.ui8Status = SetBit(LSN_SF_NEGATIVE,
                                       SetBit(LSN_SF_ZERO, st, U8(r) = 0),
                                       HasBit(U8(r), 128))]

\* The operations on m_ui8Operand of the read-modify-write instructions,
\* each a phi1 micro-step that goes on to the next one.
Asl(m) ==
    LET v == m.cpu.m_ui8Operand
    IN  NextFunction([m EXCEPT !.cpu.m_ui8Operand = U8(v * 2),
                               !.cpu.ui8Status =
                                   SetNZ(SetBit(LSN_SF_CARRY, @, HasBit(v, 128)), U8(v * 2))])

Lsr(m) ==
    LET v == m.cpu.m_ui8Operand
    IN  NextFunction([m EXCEPT !.cpu.m_ui8Operand = v \div 2,
                               !.cpu.ui8Status =
                                   SetBit(LSN_SF_ZERO,
                                          SetBit(LSN_SF_NEGATIVE,
                                                 SetBit(LSN_SF_CARRY, @, HasBit(v, 1)), FALSE),
                                          v \div 2 = 0)])

Rol(m) ==
    LET v == m.cpu.m_ui8Operand
        r == BitOr(U8(v * 2), BitAnd(m.cpu.ui8Status, LSN_SF_CARRY))
    IN  NextFunction([m EXCEPT !.cpu.m_ui8Operand = r,
                               !.cpu.ui8Status =
                                   SetNZ(SetBit(LSN_SF_CARRY, @, HasBit(v, 128)), r)])

Ror(m) ==
    LET v == m.cpu.m_ui8Operand
        r == BitOr(v \div 2, U8(BitAnd(m.cpu.ui8Status, LSN_SF_CARRY) * 128))
    IN  NextFunction([m EXCEPT !.cpu.m_ui8Operand = r,
                               !.cpu.ui8Status =
                                   SetNZ(SetBit(LSN_SF_CARRY, @, HasBit(v, 1)), r)])

Inc(m) ==
    LET r == U8(m.cpu.m_ui8Operand + 1)
    IN  NextFunction([m EXCEPT !.cpu.m_ui8Operand = r, !.cpu.ui8Status = SetNZ(@, r)])

Dec(m) ==
    LET r == U8(m.cpu.m_ui8Operand + 255)
    IN  NextFunction([m EXCEPT !.cpu.m_ui8Operand = r, !.cpu.ui8Status = SetNZ(@, r)])

Slo(m) ==
    LET v == m.cpu.m_ui8Operand
        a == BitOr(m.cpu.A, U8(v * 2))
    IN  NextFunction([m EXCEPT !.cpu.m_ui8Operand = U8(v * 2),
                               !.cpu.A = a,
                               !.cpu.ui8Status =
                                   SetNZ(SetBit(LSN_SF_CARRY, @, HasBit(v, 128)), a)])

Rla(m) ==
    LET v == m.cpu.m_ui8Operand
        r == BitOr(U8(v * 2), BitAnd(m.cpu.ui8Status, LSN_SF_CARRY))
        a == BitAnd(m.cpu.A, r)
    IN  NextFunction([m EXCEPT !.cpu.m_ui8Operand = r,
                               !.cpu.A = a,
                               !.cpu.ui8Status =
                                   SetNZ(SetBit(LSN_SF_CARRY, @, HasBit(v, 128)), a)])

Sre(m) ==
    LET v == m.cpu.m_ui8Operand
        a == BitOr(m.cpu.A, v \div 2) - BitAnd(m.cpu.A, v \div 2)
    IN  NextFunction([m EXCEPT !.cpu.m_ui8Operand = v \div 2,
                               !.cpu.A = a,
                               !.cpu.ui8Status =
                                   SetNZ(SetBit(LSN_SF_CARRY, @, HasBit(v, 1)), a)])

Rra(m) ==
    LET v == m.cpu.m_ui8Operand
        r == BitOr(v \div 2, U8(BitAnd(m.cpu.ui8Status, LSN_SF_CARRY) * 128))
        Rot(c) == [c EXCEPT !.m_ui8Operand = r,
                            !.ui8Status = SetBit(LSN_SF_CARRY, @, HasBit(v, 1))]
    IN  NextFunction([m EXCEPT !.cpu = Adc(Rot(@), r)])

Dcp(m) ==
    LET r == U8(m.cpu.m_ui8Operand + 255)
    IN  NextFunction([m EXCEPT !.cpu = Cmp([@ EXCEPT !.m_ui8Operand = r], @.A, r)])

Isb(m) ==
    LET r == U8(m.cpu.m_ui8Operand + 1)
    IN  NextFunction([m EXCEPT !.cpu = Sbc([@ EXCEPT !.m_ui8Operand = r], r)])

---------------------------------------------------------------------------
(* The instruction table and the tick functions.                           *)

Step(fn, t) == [fn |-> fn, t |-> t]

\* Null<_bRead, _bIncPc, _bAdjS, _bBeginInstr> as the table uses it.
NullRead == Step("Null", <<TRUE, FALSE, FALSE, FALSE>>)

NullIncPc == Step("Null", <<TRUE, TRUE, FALSE, FALSE>>)

NullAdjS == Step("Null", <<TRUE, FALSE, TRUE, FALSE>>)

NullBegin == Step("Null", <<FALSE, FALSE, FALSE, TRUE>>)

NullAdjSBegin == Step("Null", <<FALSE, FALSE, TRUE, TRUE>>)

FetchOpcode == Step("Fetch_Opcode_IncPc_Phi2", <<>>)

\* The micro-steps of a branch on bit uBit of the status being uVal.
BranchSteps(uBit, uVal) ==
    << FetchOpcode,
       Step("Branch_Cycle1", <<uBit, uVal>>), Step("Branch_Cycle1_Phi2", <<>>),
       Step("Branch_Cycle2", <<>>),           Step("Branch_Cycle2_Phi2", <<>>),
       Step("Branch_Cycle3", <<>>),           Step("Branch_Cycle3_Phi2", <<>>),
       Step("Branch_Cycle4", <<>>) >>

\* The read-modify-write instructions in absolute mode, and the operation of
\* each.
RmwOps ==
    {Op.ASL_ABS, Op.LSR_ABS, Op.ROL_ABS, Op.ROR_ABS, Op.INC_ABS, Op.DEC_ABS,
     Op.SLO_ABS, Op.RLA_ABS, Op.SRE_ABS, Op.RRA_ABS, Op.DCP_ABS, Op.ISB_ABS}

RmwFunc(op) ==
    CASE op = Op.ASL_ABS -> "Asl" [] op = Op.LSR_ABS -> "Lsr"
      [] op = Op.ROL_ABS -> "Rol" [] op = Op.ROR_ABS -> "Ror"
      [] op = Op.INC_ABS -> "Inc" [] op = Op.DEC_ABS -> "Dec"
      [] op = Op.SLO_ABS -> "Slo" [] op = Op.RLA_ABS -> "Rla"
      [] op = Op.SRE_ABS -> "Sre" [] op = Op.RRA_ABS -> "Rra"
      [] op = Op.DCP_ABS -> "Dcp" [] op = Op.ISB_ABS -> "Isb"

\* The unstable stores, and the store step of each.
ShOps == {Op.SHA_ABS_Y, Op.SHA_IND_Y, Op.SHS_ABS_Y, Op.SHX_ABS_Y, Op.SHY_ABS_X}

ShFunc(op) ==
    CASE op \in {Op.SHA_ABS_Y, Op.SHA_IND_Y} -> "Sha_Phi2"
      [] op = Op.SHS_ABS_Y -> "Shs_Phi2"
      [] op = Op.SHX_ABS_Y -> "Shx_Phi2"
      [] op = Op.SHY_ABS_X -> "Shy_Phi2"

\* m_iInstructionSet[op].pfHandler: the micro-steps of an instruction.
InstrSteps(op) ==
    CASE op = Op.BRK ->
           << FetchOpcode,
              NullIncPc,                   Step("Fetch_Operand_IncPc_Phi2", <<FALSE>>),
              NullIncPc,                   Step("Push_Pc_H_Phi2", <<0>>),
              NullRead,                    Step("Push_Pc_L_Phi2", <<-1>>),
              Step("SelectBrkVectors", <<>>), Step("Push_S_Phi2", <<-2>>),
              Step("SetBrkFlags", <<>>),   Step("CopyVectorToPc_L_Phi2", <<>>),
              NullAdjS,                    Step("CopyVectorToPc_H_Phi2", <<TRUE>>),
              Step("Brk_BeginInst", <<>>) >>
      [] op = Op.JAM ->
           << FetchOpcode, Step("Jam", <<>>), Step("Jam_Phi2", <<>>) >>
      [] op = Op.PHP ->
           << FetchOpcode,
              NullIncPc,                   Step("Fetch_Operand_Discard_Phi2", <<FALSE>>),
              Step("Php", <<>>),           Step("Push_Operand_Phi2", <<0, TRUE>>),
              NullAdjSBegin >>
      [] op = Op.PLP ->
           << FetchOpcode,
              NullIncPc,                   Step("Fetch_Operand_Discard_Phi2", <<FALSE>>),
              NullRead,                    Step("Pull_To_Operand_Phi2", <<0>>),
              NullAdjS,                    Step("Read_Stack_To_Operand_Phi2", <<TRUE>>),
              Step("Plp_BeginInst", <<>>) >>
      [] op = Op.RTI ->
           << FetchOpcode,
              NullIncPc,                   Step("Fetch_Operand_Discard_Phi2", <<FALSE>>),
              NullRead,                    Step("Pull_To_Operand_Phi2", <<0>>),
              NullAdjS,                    Step("Pull_To_Operand_Phi2", <<0>>),
              Step("CopyOperandToStatusWithoutB", <<>>),
                                           Step("Pull_To_Target_L_Phi2", <<1>>),
              NullRead,                    Step("Read_Stack_To_Target_H_Phi2", <<2, TRUE>>),
              Step("Rti_BeginInst", <<>>) >>
      [] op = Op.JMP ->
           << FetchOpcode,
              NullIncPc,                   Step("Fetch_Operand_To_AddrOrPtr_IncPc_Phi2", <<>>),
              NullIncPc,                   Step("Fetch_Operand_To_AddrOrPtr_H_IncPc_Phi2", <<TRUE>>),
              Step("Jmp_BeginInst", <<>>) >>
      [] op = Op.CLI ->
           << FetchOpcode,
              NullIncPc,                   Step("Fetch_Operand_Discard_Phi2", <<TRUE>>),
              Step("Cli_BeginInst", <<>>) >>
      [] op = Op.SEI ->
           << FetchOpcode,
              NullIncPc,                   Step("Fetch_Operand_Discard_Phi2", <<TRUE>>),
              Step("Sei_BeginInst", <<>>) >>
      [] op = Op.NOP ->
           << FetchOpcode,
              NullIncPc,                   Step("Fetch_Operand_Discard_Phi2", <<TRUE>>),
              NullBegin >>
      [] op = Op.BPL -> BranchSteps(LSN_SF_NEGATIVE, 0)
      [] op = Op.BMI -> BranchSteps(LSN_SF_NEGATIVE, 1)
      [] op = Op.BVC -> BranchSteps(LSN_SF_OVERFLOW, 0)
      [] op = Op.BVS -> BranchSteps(LSN_SF_OVERFLOW, 1)
      [] op = Op.BCC -> BranchSteps(LSN_SF_CARRY, 0)
      [] op = Op.BCS -> BranchSteps(LSN_SF_CARRY, 1)
      [] op = Op.BNE -> BranchSteps(LSN_SF_ZERO, 0)
      [] op = Op.BEQ -> BranchSteps(LSN_SF_ZERO, 1)
      [] op = Op.LDA_IMM ->
           << FetchOpcode,
              NullIncPc,                   Step("Fetch_Operand_IncPc_Phi2", <<TRUE>>),
              Step("Lda_BeginInst", <<TRUE>>) >>
      [] op = Op.ADC_IMM ->
           << FetchOpcode,
              NullIncPc,                   Step("Fetch_Operand_IncPc_Phi2", <<TRUE>>),
              Step("Adc_BeginInst", <<TRUE>>) >>
      [] op = Op.JMP_IND ->
           << FetchOpcode,
              NullIncPc,                   Step("Fetch_Operand_To_AddrOrPtr_IncPc_Phi2_ToPtr", <<>>),
              NullIncPc,                   Step("Fetch_Operand_To_AddrOrPtr_H_IncPc_Phi2_ToPtr", <<FALSE>>),
              NullIncPc,                   Step("Read_PtrOrAddr_To_AddrOrPtr_L_Phi2", <<>>),
              NullRead,                    Step("Read_PtrOrAddr_To_AddrOrPtr_H_SamePage_Phi2", <<TRUE>>),
              Step("Jmp_BeginInst", <<>>) >>
      [] op = Op.LDA_ABS_X ->
           << FetchOpcode,
              NullIncPc,                   Step("Fetch_Operand_To_AddrOrPtr_IncPc_Phi2", <<>>),
              NullIncPc,                   Step("Fetch_Operand_To_AddrOrPtr_H_IncPc_Phi2", <<FALSE>>),
              Step("Add_XAndPtrOrAddr_To_AddrOrPtr", <<TRUE>>),
                                           Step("Read_PtrOrAddr_To_Operand_BoundarySkip_Phi2", <<TRUE>>),
              Step("Fix_PtrOrAddr_To_AddrOrPtr_H", <<>>),
                                           Step("Read_PtrOrAddr_To_Operand_Phi2", <<TRUE>>),
              Step("Lda_BeginInst", <<FALSE>>) >>
      [] op = Op.LDA_ABS_Y ->
           << FetchOpcode,
              NullIncPc,                   Step("Fetch_Operand_To_AddrOrPtr_IncPc_Phi2", <<>>),
              NullIncPc,                   Step("Fetch_Operand_To_AddrOrPtr_H_IncPc_Phi2", <<FALSE>>),
              Step("Add_YAndPtrOrAddr_To_AddrOrPtr", <<TRUE>>),
                                           Step("Read_PtrOrAddr_To_Operand_BoundarySkip_Phi2", <<TRUE>>),
              Step("Fix_PtrOrAddr_To_AddrOrPtr_H", <<>>),
                                           Step("Read_PtrOrAddr_To_Operand_Phi2", <<TRUE>>),
              Step("Lda_BeginInst", <<FALSE>>) >>
      [] op = Op.LDA_IND_Y ->
           << FetchOpcode,
              NullIncPc,                   Step("Fetch_Operand_To_AddrOrPtr_IncPc_Phi2_ToPtr", <<>>),
              NullIncPc,                   Step("Read_PtrOrAddr_To_AddrOrPtr_L_Phi2", <<>>),
              NullRead,                    Step("Read_PtrOrAddr_To_AddrOrPtr_H_8Bit_Phi2", <<>>),
              Step("IndirectYAdd_PtrOrAddr_To_AddrOrPtr", <<>>),
                                           Step("Read_PtrOrAddr_To_Operand_BoundarySkip_Phi2", <<TRUE>>),
              Step("Fix_PtrOrAddr_To_AddrOrPtr_H", <<>>),
                                           Step("Read_PtrOrAddr_To_Operand_Phi2", <<TRUE>>),
              Step("Lda_BeginInst", <<FALSE>>) >>
      [] op = Op.STA_ABS_X ->
           << FetchOpcode,
              NullIncPc,                   Step("Fetch_Operand_To_AddrOrPtr_IncPc_Phi2", <<>>),
              NullIncPc,                   Step("Fetch_Operand_To_AddrOrPtr_H_IncPc_Phi2", <<FALSE>>),
              Step("Add_XAndPtrOrAddr_To_AddrOrPtr", <<TRUE>>),
                                           Step("Read_PtrOrAddr_To_Operand_Phi2", <<FALSE>>),
              Step("Fix_PtrOrAddr_To_AddrOrPtr_H", <<>>),
                                           Step("Write_A_To_AddrOrPtr_Phi2_ToPtr", <<>>),
              NullBegin >>
      [] op = Op.STA_ABS_Y ->
           << FetchOpcode,
              NullIncPc,                   Step("Fetch_Operand_To_AddrOrPtr_IncPc_Phi2", <<>>),
              NullIncPc,                   Step("Fetch_Operand_To_AddrOrPtr_H_IncPc_Phi2", <<FALSE>>),
              Step("Add_YAndPtrOrAddr_To_AddrOrPtr", <<TRUE>>),
                                           Step("Read_PtrOrAddr_To_Operand_Phi2", <<FALSE>>),
              Step("Fix_PtrOrAddr_To_AddrOrPtr_H", <<>>),
                                           Step("Write_A_To_AddrOrPtr_Phi2_ToPtr", <<>>),
              NullBegin >>
      [] op = Op.STA_IND_Y ->
           << FetchOpcode,
              NullIncPc,                   Step("Fetch_Operand_To_AddrOrPtr_IncPc_Phi2_ToPtr", <<>>),
              NullIncPc,                   Step("Read_PtrOrAddr_To_AddrOrPtr_L_Phi2", <<>>),
              NullRead,                    Step("Read_PtrOrAddr_To_AddrOrPtr_H_8Bit_Phi2", <<>>),
              Step("IndirectYAdd_PtrOrAddr_To_AddrOrPtr", <<>>),
                                           Step("Read_PtrOrAddr_To_Operand_Phi2", <<FALSE>>),
              Step("Fix_PtrOrAddr_To_AddrOrPtr_H", <<>>),
                                           Step("Write_A_To_AddrOrPtr_Phi2_ToPtr", <<>>),
              NullBegin >>
      [] op \in RmwOps ->
           << FetchOpcode,
              NullIncPc,                   Step("Fetch_Operand_To_AddrOrPtr_IncPc_Phi2", <<>>),
              NullIncPc,                   Step("Fetch_Operand_To_AddrOrPtr_H_IncPc_Phi2", <<FALSE>>),
              NullIncPc,                   Step("Read_PtrOrAddr_To_Operand_Phi2_FromAddr", <<FALSE>>),
              NullRead,                    Step("Write_Operand_To_AddrOrPtr_Phi2", <<FALSE>>),
              Step(RmwFunc(op), <<>>),     Step("Write_Operand_To_AddrOrPtr_Phi2", <<TRUE>>),
              NullBegin >>
      [] op = Op.ANE_IMM ->
           << FetchOpcode,
              NullIncPc,                   Step("Fetch_Operand_IncPc_Phi2", <<TRUE>>),
              Step("Ane_IncPc_BeginInst", <<>>) >>
      [] op = Op.LXA_IMM ->
           << FetchOpcode,
              NullIncPc,                   Step("Fetch_Operand_IncPc_Phi2", <<TRUE>>),
              Step("Lxa_IncPc_BeginInst", <<>>) >>
      [] op \in {Op.SHA_ABS_Y, Op.SHS_ABS_Y, Op.SHX_ABS_Y, Op.SHY_ABS_X} ->
           << FetchOpcode,
              NullIncPc,                   Step("Fetch_Operand_To_AddrOrPtr_IncPc_Phi2", <<>>),
              NullIncPc,                   Step("Fetch_Operand_To_AddrOrPtr_H_IncPc_Phi2", <<FALSE>>),
              Step(IF op = Op.SHY_ABS_X THEN "Add_XAndPtrOrAddr_To_AddrOrPtr"
                                        ELSE "Add_YAndPtrOrAddr_To_AddrOrPtr", <<TRUE>>),
                                           Step("Read_PtrOrAddr_To_Operand_Phi2", <<FALSE>>),
              Step("Fix_PtrOrAddr_To_AddrOrPtr_H", <<>>),
                                           Step(ShFunc(op), <<>>),
              NullBegin >>
      [] op = Op.SHA_IND_Y ->
           << FetchOpcode,
              NullIncPc,                   Step("Fetch_Operand_To_AddrOrPtr_IncPc_Phi2_ToPtr", <<>>),
              NullIncPc,                   Step("Read_PtrOrAddr_To_AddrOrPtr_L_Phi2", <<>>),
              NullRead,                    Step("Read_PtrOrAddr_To_AddrOrPtr_H_8Bit_Phi2", <<>>),
              Step("IndirectYAdd_PtrOrAddr_To_AddrOrPtr", <<>>),
                                           Step("Read_PtrOrAddr_To_Operand_Phi2", <<FALSE>>),
              Step("Fix_PtrOrAddr_To_AddrOrPtr_H", <<>>),
                                           Step("Sha_Phi2", <<>>),
              NullBegin >>
      [] op = Op.STA_ABS ->
           << FetchOpcode,
              NullIncPc,                   Step("Fetch_Operand_To_AddrOrPtr_IncPc_Phi2", <<>>),
              NullIncPc,                   Step("Fetch_Operand_To_AddrOrPtr_H_IncPc_Phi2", <<FALSE>>),
              NullIncPc,                   Step("Write_A_To_AddrOrPtr_Phi2", <<>>),
              NullBegin >>

\* The micro-step the CPU runs next.
CurStep(c) == InstrSteps(c.m_ui16OpCode)[c.m_ui8FuncIndex + 1]

\* (this->*m_pfCurInstruction[m_ui8FuncIndex])().
RunStep(m, e) ==
    LET f == e.fn
        t == e.t
    IN  CASE f = "Fetch_Opcode_IncPc_Phi2"      -> Fetch_Opcode_IncPc_Phi2(m)
          [] f = "Fetch_Operand_Discard_Phi2"   -> Fetch_Operand_Discard_Phi2(m, t[1])
          [] f = "Fetch_Operand_IncPc_Phi2"     -> Fetch_Operand_IncPc_Phi2(m, t[1])
          [] f = "Fetch_Operand_To_AddrOrPtr_IncPc_Phi2" ->
                                                   Fetch_Operand_To_AddrOrPtr_IncPc_Phi2(m)
          [] f = "Fetch_Operand_To_AddrOrPtr_H_IncPc_Phi2" ->
                                                   Fetch_Operand_To_AddrOrPtr_H_IncPc_Phi2(m, t[1])
          [] f = "Null"                         -> Null(m, t[1], t[2], t[3], t[4])
          [] f = "Jam"                          -> Jam(m)
          [] f = "Jam_Phi2"                     -> Jam_Phi2(m)
          [] f = "Php"                          -> Php(m)
          [] f = "Plp_BeginInst"                -> Plp_BeginInst(m)
          [] f = "Pull_To_Operand_Phi2"         -> Pull_To_Operand_Phi2(m, t[1])
          [] f = "Pull_To_Target_L_Phi2"        -> Pull_To_Target_L_Phi2(m, t[1])
          [] f = "Push_Operand_Phi2"            -> Push_Operand_Phi2(m, t[1], t[2])
          [] f = "Push_Pc_H_Phi2"               -> Push_Pc_H_Phi2(m, t[1])
          [] f = "Push_Pc_L_Phi2"               -> Push_Pc_L_Phi2(m, t[1])
          [] f = "Push_S_Phi2"                  -> Push_S_Phi2(m, t[1])
          [] f = "Read_Stack_To_Operand_Phi2"   -> Read_Stack_To_Operand_Phi2(m, t[1])
          [] f = "Read_Stack_To_Target_H_Phi2"  -> Read_Stack_To_Target_H_Phi2(m, t[1], t[2])
          [] f = "CopyOperandToStatusWithoutB"  -> CopyOperandToStatusWithoutB(m)
          [] f = "Rti_BeginInst"                -> Rti_BeginInst(m)
          [] f = "SelectBrkVectors"             -> SelectBrkVectors(m)
          [] f = "SetBrkFlags"                  -> SetBrkFlags(m)
          [] f = "CopyVectorToPc_L_Phi2"        -> CopyVectorToPc_L_Phi2(m)
          [] f = "CopyVectorToPc_H_Phi2"        -> CopyVectorToPc_H_Phi2(m, t[1])
          [] f = "Brk_BeginInst"                -> Brk_BeginInst(m)
          [] f = "Cli_BeginInst"                -> Cli_BeginInst(m)
          [] f = "Sei_BeginInst"                -> Sei_BeginInst(m)
          [] f = "Jmp_BeginInst"                -> Jmp_BeginInst(m)
          [] f = "Lda_BeginInst"                -> Lda_BeginInst(m, t[1])
          [] f = "Branch_Cycle1"                -> Branch_Cycle1(m, t[1], t[2])
          [] f = "Branch_Cycle1_Phi2"           -> Branch_Cycle1_Phi2(m)
          [] f = "Branch_Cycle2"                -> Branch_Cycle2(m)
          [] f = "Branch_Cycle2_Phi2"           -> Branch_Cycle2_Phi2(m)
          [] f = "Branch_Cycle3"                -> Branch_Cycle3(m)
          [] f = "Branch_Cycle3_Phi2"           -> Branch_Cycle3_Phi2(m)
          [] f = "Branch_Cycle4"                -> Branch_Cycle4(m)
          [] f = "Write_A_To_AddrOrPtr_Phi2"    -> Write_A_To_AddrOrPtr_Phi2(m)
          [] f = "Write_A_To_AddrOrPtr_Phi2_ToPtr" -> Write_A_To_AddrOrPtr_Phi2_ToPtr(m)
          [] f = "Read_PtrOrAddr_To_Operand_Phi2_FromAddr" ->
                 Read_PtrOrAddr_To_Operand_Phi2_FromAddr(m, t[1])
          [] f = "Write_Operand_To_AddrOrPtr_Phi2" -> Write_Operand_To_AddrOrPtr_Phi2(m, t[1])
          [] f = "Asl" -> Asl(m)  [] f = "Lsr" -> Lsr(m)
          [] f = "Rol" -> Rol(m)  [] f = "Ror" -> Ror(m)
          [] f = "Inc" -> Inc(m)  [] f = "Dec" -> Dec(m)
          [] f = "Slo" -> Slo(m)  [] f = "Rla" -> Rla(m)
          [] f = "Sre" -> Sre(m)  [] f = "Rra" -> Rra(m)
          [] f = "Dcp" -> Dcp(m)  [] f = "Isb" -> Isb(m)
          [] f = "Ane_IncPc_BeginInst" -> Ane_IncPc_BeginInst(m)
          [] f = "Lxa_IncPc_BeginInst" -> Lxa_IncPc_BeginInst(m)
          [] f = "Sha_Phi2" -> Sha_Phi2(m)  [] f = "Shs_Phi2" -> Shs_Phi2(m)
          [] f = "Shx_Phi2" -> Shx_Phi2(m)  [] f = "Shy_Phi2" -> Shy_Phi2(m)
          [] f = "Adc_BeginInst"                -> Adc_BeginInst(m, t[1])
          [] f = "Fetch_Operand_To_AddrOrPtr_IncPc_Phi2_ToPtr" ->
                                                   Fetch_Operand_To_AddrOrPtr_IncPc_Phi2_ToPtr(m)
          [] f = "Fetch_Operand_To_AddrOrPtr_H_IncPc_Phi2_ToPtr" ->
                                                   Fetch_Operand_To_AddrOrPtr_H_IncPc_Phi2_ToPtr(m, t[1])
          [] f = "Read_PtrOrAddr_To_AddrOrPtr_L_Phi2" ->
                                                   Read_PtrOrAddr_To_AddrOrPtr_L_Phi2(m)
          [] f = "Read_PtrOrAddr_To_AddrOrPtr_H_SamePage_Phi2" ->
                                                   Read_PtrOrAddr_To_AddrOrPtr_H_SamePage_Phi2(m, t[1])
          [] f = "Read_PtrOrAddr_To_AddrOrPtr_H_8Bit_Phi2" ->
                                                   Read_PtrOrAddr_To_AddrOrPtr_H_8Bit_Phi2(m)
          [] f = "Add_XAndPtrOrAddr_To_AddrOrPtr" -> Add_XAndPtrOrAddr_To_AddrOrPtr(m, t[1])
          [] f = "Add_YAndPtrOrAddr_To_AddrOrPtr" -> Add_YAndPtrOrAddr_To_AddrOrPtr(m, t[1])
          [] f = "IndirectYAdd_PtrOrAddr_To_AddrOrPtr" ->
                                                   IndirectYAdd_PtrOrAddr_To_AddrOrPtr(m)
          [] f = "Fix_PtrOrAddr_To_AddrOrPtr_H" -> Fix_PtrOrAddr_To_AddrOrPtr_H(m)
          [] f = "Read_PtrOrAddr_To_Operand_Phi2" -> Read_PtrOrAddr_To_Operand_Phi2(m, t[1])
          [] f = "Read_PtrOrAddr_To_Operand_BoundarySkip_Phi2" ->
                                                   Read_PtrOrAddr_To_Operand_BoundarySkip_Phi2(m, t[1])

\* Tick_NextInstructionStd: the tick function the constructor installs; its
\* first call hands over to the instruction cycles, starting at the fetch.
Tick_NextInstructionStd(m) ==
    [m EXCEPT !.cpu.m_pfTickFunc = "Tick_InstructionCycleStd",
              !.cpu.m_pfTickFuncCopy = "Tick_InstructionCycleStd",
              !.cpu.m_ui8FuncIndex = 0]

\* Tick_InstructionCycleStd: one micro-step of the current instruction.
Tick_InstructionCycleStd(m) == RunStep(m, CurStep(m.cpu))

\* The register the DMA transfer writes to: OAMDATA.
LSN_PR_OAMDATA == 8196

\* The bytes of a DMA transfer.
DmaLength == 256

\* A DMA tick whose LSN_DS_IDLE state moves on in any cycle.
Tick_Dma_NoAlign(m) ==
    LET Latched(r) ==
          [r.m EXCEPT !.cpu.m_ui8DmaValue = r.val, !.cpu.dmaState = "LSN_DS_WRITE",
                      !.cpu.dmaPhi2 = FALSE]
        Written(w) ==
          IF m.cpu.m_ui8DmaPos = DmaLength - 1
          THEN [w EXCEPT !.cpu.m_pfTickFunc = m.cpu.m_pfTickFuncCopy,
                         !.cpu.m_ui8DmaPos = 0,
                         !.cpu.dmaState = "LSN_DS_IDLE", !.cpu.dmaPhi2 = FALSE]
          ELSE [w EXCEPT !.cpu.m_ui8DmaPos = @ + 1,
                         !.cpu.dmaState = "LSN_DS_READ", !.cpu.dmaPhi2 = FALSE]
    IN  CASE ~m.cpu.dmaPhi2 -> [m EXCEPT !.cpu.dmaPhi2 = TRUE]
          [] m.cpu.dmaPhi2 /\ m.cpu.dmaState = "LSN_DS_IDLE" ->
               [m EXCEPT !.cpu.dmaState = "LSN_DS_READ", !.cpu.m_ui8DmaPos = 0,
                         !.cpu.dmaPhi2 = FALSE]
          [] m.cpu.dmaPhi2 /\ m.cpu.dmaState = "LSN_DS_READ" ->
               Latched(BusRead(m, U16(m.cpu.m_ui16DmaAddress + m.cpu.m_ui8DmaPos)))
          [] m.cpu.dmaPhi2 /\ m.cpu.dmaState = "LSN_DS_WRITE" ->
               Written(BusWrite(m, LSN_PR_OAMDATA, m.cpu.m_ui8DmaValue))

\* Tick_Dma<_uState, _bPhi2>: the tick function of a DMA transfer, called
\* in both halves of a cycle (dmaState and dmaPhi2 are its template
\* arguments).  The phi1 half does nothing.  The phi2 half of LSN_DS_IDLE
\* moves on when the cycle is even; of LSN_DS_READ reads the next byte of
\* the source page; of LSN_DS_WRITE writes it to OAMDATA and, after the last
\* byte, gives the tick back to m_pfTickFuncCopy.
Tick_Dma(m) ==
    LET Latched(r) ==
          [r.m EXCEPT !.cpu.m_ui8DmaValue = r.val, !.cpu.dmaState = "LSN_DS_WRITE",
                      !.cpu.dmaPhi2 = FALSE]
        Written(w) ==
          IF m.cpu.m_ui8DmaPos = DmaLength - 1
          THEN [w EXCEPT !.cpu.m_pfTickFunc = m.cpu.m_pfTickFuncCopy,
                         !.cpu.m_ui8DmaPos = 0,
                         !.cpu.dmaState = "LSN_DS_IDLE", !.cpu.dmaPhi2 = FALSE]
          ELSE [w EXCEPT !.cpu.m_ui8DmaPos = @ + 1,
                         !.cpu.dmaState = "LSN_DS_READ", !.cpu.dmaPhi2 = FALSE]
    IN  CASE ~m.cpu.dmaPhi2 -> [m EXCEPT !.cpu.dmaPhi2 = TRUE]
          [] m.cpu.dmaPhi2 /\ m.cpu.dmaState = "LSN_DS_IDLE" ->
               IF m.cpu.m_ui64CycleCount % 2 = 0
               THEN [m EXCEPT !.cpu.dmaState = "LSN_DS_READ", !.cpu.m_ui8DmaPos = 0,
                              !.cpu.dmaPhi2 = FALSE]
               ELSE [m EXCEPT !.cpu.dmaPhi2 = FALSE]
          [] m.cpu.dmaPhi2 /\ m.cpu.dmaState = "LSN_DS_READ" ->
               Latched(BusRead(m, U16(m.cpu.m_ui16DmaAddress + m.cpu.m_ui8DmaPos)))
          [] m.cpu.dmaPhi2 /\ m.cpu.dmaState = "LSN_DS_WRITE" ->
               Written(BusWrite(m, LSN_PR_OAMDATA, m.cpu.m_ui8DmaValue))

\* (this->*m_pfTickFunc)().
TickFunc(m) ==
    CASE m.cpu.m_pfTickFunc = "Tick_NextInstructionStd" ->
             Tag(Tick_NextInstructionStd(m), "step")
      [] m.cpu.m_pfTickFunc = "Tick_Dma" -> Tag(Tick_Dma(m), "step")
      [] OTHER -> Tag(Tick_InstructionCycleStd(m), "step")

\* m_pmbMapper->Tick().
MapperTick(m) == Tag([m EXCEPT !.mapper.ticks = @ + 1], "mapper")

\* A phi1 half that forgets to clear m_bIrqSeenLowPhi2.
CCpu6502_Tick_KeepIrqSeen(m) ==
    LET a == Tag([m EXCEPT !.cpu.m_bIrqStatusPhi1Flag = m.cpu.m_bIrqSeenLowPhi2],
                 "irq_status_phi1")
    IN  TickFunc(MapperTick(Tag(a, "irq_seen_clear")))

\* A phi1 half that ticks the mapper after the micro-step.
CCpu6502_Tick_MapperLast(m) ==
    LET a == Tag([m EXCEPT !.cpu.m_bIrqStatusPhi1Flag = m.cpu.m_bIrqSeenLowPhi2],
                 "irq_status_phi1")
        b == Tag([a EXCEPT !.cpu.m_bIrqSeenLowPhi2 = FALSE], "irq_seen_clear")
    IN  MapperTick(TickFunc(b))

\* CCpu6502::Tick(): the phi1 half of a cycle.
CCpu6502_Tick(m) ==
    LET a == Tag([m EXCEPT !.cpu.m_bIrqStatusPhi1Flag = m.cpu.m_bIrqSeenLowPhi2],
                 "irq_status_phi1")
        b == Tag([a EXCEPT !.cpu.m_bIrqSeenLowPhi2 = FALSE], "irq_seen_clear")
    IN  TickFunc(IF m.cpu.LSN_CPU_VERIFY THEN b ELSE MapperTick(b))

\* A phi2 half that does not look at the NMI line during a DMA transfer.
CCpu6502_TickPhi2_DmaBlind(m) ==
    LET Count(c) == Tag([c EXCEPT !.cpu.m_ui64CycleCount = @ + 1], "cycle")
        Sample(b) ==
          Count(Tag([b EXCEPT !.cpu.m_bIrqSeenLowPhi2 = @ \/ b.cpu.m_bIrqStatusLine],
                    "irq_sample"))
        Edge(a) ==
          Sample(Tag(IF m.cpu.m_pfTickFunc = "Tick_Dma" THEN a
                     ELSE [a EXCEPT !.cpu.m_bDetectedNmi =
                                        @ \/ (~a.cpu.m_bLastNmiStatusLine /\ a.cpu.m_bNmiStatusLine),
                                    !.cpu.m_bLastNmiStatusLine = a.cpu.m_bNmiStatusLine],
                     "nmi_edge"))
    IN  Edge(TickFunc(m))

\* CCpu6502::TickPhi2(): the phi2 half of a cycle.
CCpu6502_TickPhi2(m) ==
    LET Count(c) == Tag([c EXCEPT !.cpu.m_ui64CycleCount = @ + 1], "cycle")
        Sample(b) ==
          Count(Tag([b EXCEPT !.cpu.m_bIrqSeenLowPhi2 = @ \/ b.cpu.m_bIrqStatusLine],
                    "irq_sample"))
        Edge(a) ==
          Sample(Tag([a EXCEPT !.cpu.m_bDetectedNmi =
                                   @ \/ (~a.cpu.m_bLastNmiStatusLine /\ a.cpu.m_bNmiStatusLine),
                               !.cpu.m_bLastNmiStatusLine = a.cpu.m_bNmiStatusLine],
                     "nmi_edge"))
    IN  Edge(TickFunc(m))

---------------------------------------------------------------------------
(* Construction.                                                           *)

\* The CPU as its constructor leaves it.
Constructed ==
    [A |-> 0, X |-> 0, Y |-> 0, S |-> 0, ui8Status |-> 0, PC |-> 0,
     m_ui16OpCode |-> 0, m_ui8FuncIndex |-> 0, m_ui8Operand |-> 0,
     m_ui16Address |-> 0, m_ui16Pointer |-> 0, m_ui16Target |-> 0,
     m_bPushB |-> FALSE, m_vBrkVector |-> LSN_V_RESET,
     m_ui16PcModify |-> 0, m_ui8SModify |-> 0, m_bAllowWritingToPc |-> TRUE,
     m_bHandleNmi |-> FALSE, m_bHandleIrq |-> FALSE,
     m_bIsReset |-> FALSE, resetSeq |-> FALSE,
     m_bDetectedNmi |-> FALSE, m_bLastNmiStatusLine |-> FALSE,
     m_bNmiStatusLine |-> FALSE, m_bIrqStatusLine |-> FALSE,
     m_bIrqSeenLowPhi2 |-> FALSE, m_bIrqStatusPhi1Flag |-> FALSE,
     m_ui64CycleCount |-> 0,
     m_pfTickFunc |-> "Tick_NextInstructionStd",
     m_pfTickFuncCopy |-> "Tick_NextInstructionStd",
     m_ui16DmaAddress |-> 0, m_bDmaGo |-> FALSE,
     m_ui8DmaPos |-> 0, m_ui8DmaValue |-> 0,
     m_bTakeJump |-> FALSE, m_bBoundaryCrossed |-> FALSE,
     dmaState |-> "LSN_DS_IDLE", dmaPhi2 |-> FALSE,
     m_ui8Inputs |-> <<0, 0>>, m_ui8InputsPoll |-> <<0, 0>>,
     m_ui8InputsState |-> <<0, 0>>, m_pipPoller |-> -1,
     LSN_CPU_VERIFY |-> FALSE]

\* ResetToKnown(): the power-on register values, PC from the reset vector,
\* the microstate as the constructor leaves it, the reset pending; the
\* interrupt lines and latches stay.  resetSeq says that the BRK sequence
\* serving the reset has not finished.
ResetToKnown(m) ==
    LET Micro(c) ==
          [c EXCEPT !.m_ui16OpCode = 0, !.m_ui8FuncIndex = 0, !.m_ui8Operand = 0,
                    !.m_ui16Address = 0, !.m_ui16Target = 0, !.m_bPushB = FALSE,
                    !.m_vBrkVector = LSN_V_RESET, !.m_ui16PcModify = 0,
                    !.m_ui8SModify = 0, !.m_bAllowWritingToPc = TRUE,
                    !.m_ui64CycleCount = 0,
                    !.m_pfTickFunc = "Tick_NextInstructionStd",
                    !.m_pfTickFuncCopy = "Tick_NextInstructionStd"]
        Known(lo, hi) ==
          [hi.m EXCEPT !.cpu = [Micro(@) EXCEPT !.A = 0, !.X = 0, !.Y = 0,
                                                !.S = 253, !.ui8Status = 52,
                                                !.PC = Word(lo.val, hi.val),
                                                !.m_bIsReset = TRUE, !.resetSeq = TRUE],
                       !.bus.log = <<>>]
        High(lo) == Known(lo, BusRead(lo.m, LSN_V_RESET + 1))
    IN  High(BusRead(m, LSN_V_RESET))

\* The bus after CCpu6502::ApplyMemoryMap(), which sets one float mask.
ApplyMemoryMap ==
    SetFloatMask([ram |-> <<>>, openBus |-> 0, floatMask |-> <<>>,
                  driven |-> {}, cart |-> 0, log |-> <<>>],
                 16405, 0)

\* The console with cartridge p inserted (0: none): the internal RAM, and
\* the PRG ROM of a cartridge, drive all eight bits of a read.
Console(p) ==
    [cpu    |-> Constructed,
     bus    |-> [ApplyMemoryMap EXCEPT !.cart = p,
                                       !.driven = IF p = 0 THEN {"ram"} ELSE {"ram", "prg"}],
     mapper |-> [ticks |-> 0],
     order  |-> <<>>]

\* The history variables before anything happened.
\*   acc, lastWrite, maskSet, busOps   the bus accesses of a device
\*   order, step       the sub-steps and the micro-step of the last tick
\*   lineEvents        how often a device changed an interrupt line
\*   nmiSample, irqSample, irqSampledHigh, nmiEdges   the lines as phi2 saw them
\*   irqRaised, pulseUnseen   irq() then clear_irq() with no sample between
\*   seqKind           what made the opcode fetch start the running sequence
\*   serve, sel, taken what SelectBrkVectors had before it and what it served;
\*                     taken.LOST counts the selections made with the reset
\*                     pending and an NMI detected
\*   poll              the inputs of the last interrupt poll
\*   pollI             the I flag at the poll that set m_bHandleIrq
\*   push              the last status byte pushed: by PHP or by the BRK
\*                     sequence (SEQ), what started and what it served
\*   dma               the running or the last DMA transfer: the byte written
\*                     to 0x4014, the cycle of its first stolen cycle and the
\*                     cycle the program resumed in, the stolen cycles, the
\*                     reads and writes made and the byte last read, the
\*                     registers and microstate when it began, the transfers
\*                     finished, whether the last phi1 half was the first of
\*                     the resumed program, whether an NMI edge was latched
\*                     while it ran
\*   fetchPc           PC at the last opcode fetch
\*   br                the opcode fetches made, PC, the cycle and the opcode of
\*                     the last one and of the one before it
\*   trace             the bus accesses made since the run began, one per cycle
\*   start             the registers and the memory the run began with
\*   test, I, ret      the test RunJsonTest() runs, the passes its loop has left
\*                     and what it returned
\*   handled           m_bHandleNmi after each TickPhi2() of RunJsonTest()
\*   polls             what each cycle of a run of SpecPoll saw and did to the
\*                     two interrupt flags
ObsInit ==
    [acc |-> [kind |-> "none", addr |-> 0, val |-> 0, ret |-> 0, before |-> 0, mask |-> 0],
     lastWrite |-> <<>>, maskSet |-> {16405}, busOps |-> 0,
     order |-> <<>>, step |-> "none", lineEvents |-> 0,
     nmiSample |-> FALSE, irqSample |-> FALSE, irqSampledHigh |-> FALSE, nmiEdges |-> 0,
     irqRaised |-> FALSE, pulseUnseen |-> FALSE,
     clearNmiCalled |-> FALSE, clearIrqCalled |-> FALSE,
     seqKind |-> "none", serve |-> "none",
     sel |-> [made |-> FALSE, reset |-> FALSE, nmi |-> FALSE],
     taken |-> [RESET |-> 0, NMI |-> 0, IRQ |-> 0, BRK |-> 0, LOST |-> 0],
     poll |-> [made |-> FALSE, irq |-> FALSE, I |-> FALSE, nmi |-> FALSE, had |-> FALSE],
     pollI |-> FALSE,
     push |-> [cause |-> "none", start |-> "none", serve |-> "none",
               val |-> 0, written |-> FALSE],
     dma |-> [on |-> FALSE, page |-> 0, first |-> 0, resumed |-> 0, stolen |-> 0,
              reads |-> 0, writes |-> 0, rd |-> 0, regs |-> <<>>, done |-> 0,
              cont |-> FALSE, nmiIn |-> FALSE],
     fetchPc |-> 0,
     br |-> [n |-> 0, pc |-> 0, cycle |-> 0, op |-> 0,
             prevPc |-> 0, prevCycle |-> 0, prevOp |-> 0],
     trace |-> <<>>, start |-> <<>>,
     test |-> <<>>, I |-> 0, ret |-> "none", handled |-> <<>>, polls |-> <<>>]

---------------------------------------------------------------------------
(* The bus on its own: a device reads, writes and sets float masks.        *)

\* The machine an operation starts from.
Machine == [cpu |-> cpu, bus |-> [bus EXCEPT !.log = <<>>], mapper |-> mapper, order |-> <<>>]

BusAddrs == {0, 1, 2048, 6145, 16405, 16406, 20480}

BusVals == {17, 165}

MaskAddrs == {16406, 20480}

MaskVals == {0, 224}

MirrorClass(a) == (a - LSN_CPU_START) % LSN_INTERNAL_RAM

InitBus ==
    /\ cpu = Console(0).cpu
    /\ bus = Console(0).bus
    /\ mapper = Console(0).mapper
    /\ phase = "bus"
    /\ obs = [ObsInit EXCEPT !.maskSet = @ \cup {a \in BusAddrs : Region(a) \in bus.driven}]

DoRead(a) ==
    /\ obs.busOps < MaxBusOps
    /\ \E r \in {BusRead(Machine, a)} :
          /\ cpu' = r.m.cpu
          /\ bus' = r.m.bus
          /\ obs' = [obs EXCEPT !.acc = [kind |-> "read", addr |-> a, val |-> r.val,
                                         ret |-> CallRead(Machine, a).ret,
                                         before |-> bus.openBus,
                                         mask |-> FloatMask(bus, a)],
                                !.busOps = @ + 1]
    /\ UNCHANGED <<mapper, phase>>

DoWrite(a, v) ==
    /\ obs.busOps < MaxBusOps
    /\ \E m1 \in {BusWrite(Machine, a, v)} :
          /\ cpu' = m1.cpu
          /\ bus' = m1.bus
          /\ obs' = [obs EXCEPT !.acc = [kind |-> "write", addr |-> a, val |-> v,
                                         ret |-> 0, before |-> bus.openBus,
                                         mask |-> FloatMask(bus, a)],
                                !.lastWrite = IF Region(a) = "ram"
                                              THEN Put(@, MirrorClass(a), v) ELSE @,
                                !.busOps = @ + 1]
    /\ UNCHANGED <<mapper, phase>>

DoSetFloatMask(a, mask) ==
    /\ obs.busOps < MaxBusOps
    /\ bus' = SetFloatMask(bus, a, mask)
    /\ obs' = [obs EXCEPT !.maskSet = @ \cup {a}, !.busOps = @ + 1]
    /\ UNCHANGED <<cpu, mapper, phase>>

NextBus ==
    \/ \E a \in BusAddrs : DoRead(a)
    \/ \E a \in BusAddrs, v \in BusVals : DoWrite(a, v)
    \/ \E a \in MaskAddrs, mask \in MaskVals : DoSetFloatMask(a, mask)

SpecBus == InitBus /\ [][NextBus]_vars

---------------------------------------------------------------------------
(* The console: the host calls Tick() and TickPhi2() in turn, and the      *)
(* devices raise and lower the interrupt lines between the calls.          *)

\* The stack byte the first PLP of a program pulls.
StackBytes == {0, 255}

Init ==
    /\ \E p \in 1..Len(Programs), b \in StackBytes :
         \E m \in {ResetToKnown([Console(p) EXCEPT !.bus.ram = (507 :> b)])} :
            /\ cpu = m.cpu
            /\ bus = m.bus
            /\ mapper = m.mapper
    /\ phase = "phi1"
    /\ obs = ObsInit

\* The name of the micro-step the next tick runs.
StepName(c) ==
    IF c.m_pfTickFunc # "Tick_InstructionCycleStd" THEN c.m_pfTickFunc
    ELSE CurStep(c).fn

\* The next phi2 micro-step is the one that polls the interrupts: the last
\* phi2 micro-step of an instruction.
PollsNow(c) ==
    /\ c.m_pfTickFunc = "Tick_InstructionCycleStd"
    /\ c.m_ui16OpCode # Op.JAM
    /\ c.m_ui8FuncIndex = Len(InstrSteps(c.m_ui16OpCode)) - 2

\* What the running sequence serves, as SelectBrkVectors finds it.
Serves(o, c) ==
    IF c.m_bIsReset THEN "RESET"
    ELSE IF c.m_bDetectedNmi THEN "NMI"
    ELSE IF o.seqKind = "IRQ" THEN "IRQ"
    ELSE "BRK"

\* The registers and the microstate a DMA transfer must leave alone.
DmaRegs(c) ==
    <<c.PC, c.A, c.X, c.Y, c.S, c.ui8Status, c.m_ui16OpCode, c.m_ui8FuncIndex,
      c.m_pfTickFuncCopy>>

ObsDma(d, c, m1) ==
    LET was == c.m_pfTickFunc = "Tick_Dma"
        is  == m1.cpu.m_pfTickFunc = "Tick_Dma"
        log == m1.bus.log
        rds == Cardinality({i \in DOMAIN log : log[i].read})
    IN  CASE ~was /\ is ->
               [d EXCEPT !.on = TRUE, !.page = log[Len(log)].val,
                         !.first = m1.cpu.m_ui64CycleCount, !.resumed = 0,
                         !.stolen = 0, !.reads = 0, !.writes = 0, !.rd = 0,
                         !.regs = DmaRegs(m1.cpu), !.cont = FALSE, !.nmiIn = FALSE]
          [] was ->
               [d EXCEPT !.on = is, !.stolen = @ + 1,
                         !.reads = @ + rds, !.writes = @ + Len(log) - rds,
                         !.rd = IF rds > 0 THEN log[1].val ELSE @,
                         !.resumed = IF is THEN @ ELSE m1.cpu.m_ui64CycleCount,
                         !.done = IF is THEN @ ELSE @ + 1,
                         !.nmiIn = @ \/ (~c.m_bDetectedNmi /\ m1.cpu.m_bDetectedNmi)]
          [] OTHER -> [d EXCEPT !.cont = FALSE]

ObsPhi1(o, c, m1) ==
    LET fn  == StepName(c)
        sel == fn = "SelectBrkVectors"
    IN  [o EXCEPT !.order = m1.order,
                  !.dma.cont = o.step = "Tick_Dma" /\ fn # "Tick_Dma",
                  !.step = fn,
                  !.serve = IF sel THEN Serves(o, c) ELSE @,
                  !.sel = IF sel THEN [made |-> TRUE, reset |-> c.m_bIsReset,
                                       nmi |-> c.m_bDetectedNmi]
                          ELSE @,
                  !.taken = IF sel
                            THEN [@ EXCEPT ![Serves(o, c)] = @ + 1,
                                           !.LOST = IF c.m_bIsReset /\ c.m_bDetectedNmi
                                                    THEN @ + 1 ELSE @]
                            ELSE @,
                  !.poll.made = FALSE]

ObsPhi2(o, c, m1) ==
    LET fn    == StepName(c)
        fetch == fn = "Fetch_Opcode_IncPc_Phi2"
        acc   == m1.bus.log[1]
        spush == fn = "Push_S_Phi2"
        ppush == fn = "Push_Operand_Phi2" /\ c.m_ui16OpCode = Op.PHP
    IN  [o EXCEPT !.order = m1.order,
                  !.step = fn,
                  !.nmiSample = m1.cpu.m_bNmiStatusLine,
                  !.irqSample = m1.cpu.m_bIrqStatusLine,
                  !.irqSampledHigh = @ \/ m1.cpu.m_bIrqStatusLine,
                  !.nmiEdges = IF ~o.nmiSample /\ m1.cpu.m_bNmiStatusLine THEN @ + 1 ELSE @,
                  !.irqRaised = FALSE,
                  !.seqKind = IF ~fetch THEN @
                              ELSE IF c.m_bIsReset THEN "RESET"
                              ELSE IF c.m_bHandleNmi THEN "NMI"
                              ELSE IF c.m_bHandleIrq THEN "IRQ"
                              ELSE IF acc.val = Op.BRK THEN "BRK"
                              ELSE "OP",
                  !.poll = IF PollsNow(c)
                           THEN [made |-> TRUE, irq |-> c.m_bIrqStatusPhi1Flag,
                                 I |-> HasBit(c.ui8Status, LSN_SF_IRQ),
                                 nmi |-> c.m_bDetectedNmi, had |-> c.m_bHandleIrq]
                           ELSE [@ EXCEPT !.made = FALSE],
                  !.pollI = IF ~c.m_bHandleIrq /\ m1.cpu.m_bHandleIrq
                            THEN HasBit(c.ui8Status, LSN_SF_IRQ) ELSE @,
                  !.push = IF spush \/ ppush
                           THEN [cause |-> IF ppush THEN "PHP" ELSE "SEQ",
                                 start |-> o.seqKind, serve |-> o.serve,
                                 val |-> acc.val, written |-> ~acc.read]
                           ELSE @,
                  !.dma = ObsDma(@, c, m1),
                  !.fetchPc = IF fetch THEN c.PC ELSE @]

\* The host calls CCpu6502::Tick().
Tick ==
    /\ phase = "phi1"
    /\ cpu.m_ui64CycleCount < MaxCycles
    /\ \E m1 \in {CCpu6502_Tick(Machine)} :
          /\ cpu' = m1.cpu
          /\ bus' = m1.bus
          /\ mapper' = m1.mapper
          /\ obs' = ObsPhi1(obs, cpu, m1)
    /\ phase' = "phi2"

\* The host calls CCpu6502::TickPhi2().
TickPhi2 ==
    /\ phase = "phi2"
    /\ \E m1 \in {CCpu6502_TickPhi2(Machine)} :
          /\ cpu' = m1.cpu
          /\ bus' = m1.bus
          /\ mapper' = m1.mapper
          /\ obs' = ObsPhi2(obs, cpu, m1)
    /\ phase' = "phi1"

\* A device calls CCpu6502::Nmi().
Nmi ==
    /\ phase \in {"phi1", "phi2"}
    /\ obs.lineEvents < MaxLineEvents
    /\ ~cpu.m_bNmiStatusLine
    /\ cpu' = [cpu EXCEPT !.m_bNmiStatusLine = TRUE]
    /\ obs' = [obs EXCEPT !.lineEvents = @ + 1]
    /\ UNCHANGED <<bus, mapper, phase>>

\* A device calls CCpu6502::ClearNmi().
ClearNmi ==
    /\ phase \in {"phi1", "phi2"}
    /\ obs.lineEvents < MaxLineEvents
    /\ cpu.m_bNmiStatusLine
    /\ cpu' = [cpu EXCEPT !.m_bNmiStatusLine = FALSE]
    /\ obs' = [obs EXCEPT !.lineEvents = @ + 1, !.clearNmiCalled = TRUE]
    /\ UNCHANGED <<bus, mapper, phase>>

\* A device calls CCpu6502::Irq().
Irq ==
    /\ phase \in {"phi1", "phi2"}
    /\ obs.lineEvents < MaxLineEvents
    /\ ~cpu.m_bIrqStatusLine
    /\ cpu' = [cpu EXCEPT !.m_bIrqStatusLine = TRUE]
    /\ obs' = [obs EXCEPT !.lineEvents = @ + 1, !.irqRaised = TRUE]
    /\ UNCHANGED <<bus, mapper, phase>>

\* A device calls CCpu6502::ClearIrq().
ClearIrq ==
    /\ phase \in {"phi1", "phi2"}
    /\ obs.lineEvents < MaxLineEvents
    /\ cpu.m_bIrqStatusLine
    /\ cpu' = [cpu EXCEPT !.m_bIrqStatusLine = FALSE]
    /\ obs' = [obs EXCEPT !.lineEvents = @ + 1, !.clearIrqCalled = TRUE,
                          !.pulseUnseen = @ \/ obs.irqRaised]
    /\ UNCHANGED <<bus, mapper, phase>>

Next ==
    \/ Tick
    \/ TickPhi2
    \/ Nmi
    \/ ClearNmi
    \/ Irq
    \/ ClearIrq

Spec == Init /\ [][Next]_vars

---------------------------------------------------------------------------
(* Properties of the bus (specification SpecBus).                          *)

---------------------------------------------------------------------------
(* Properties of the tick engine (specification Spec).                     *)

\* C1: Tick() copies m_bIrqSeenLowPhi2 to m_bIrqStatusPhi1Flag, clears
\* m_bIrqSeenLowPhi2, ticks the mapper once and runs one micro-step, in
\* that order; TickPhi2() runs one micro-step, latches the NMI edge, ors
\* the IRQ line into m_bIrqSeenLowPhi2 and adds one to the cycle counter,
\* in that order; no other step changes the cycle counter.
C1_TickOrder ==
    [][ /\ (phase = "phi1" /\ phase' = "phi2") =>
             /\ obs'.order = <<"irq_status_phi1", "irq_seen_clear", "mapper", "step">>
             /\ cpu'.m_bIrqStatusPhi1Flag = cpu.m_bIrqSeenLowPhi2
             /\ cpu'.m_bIrqSeenLowPhi2 = FALSE
             /\ mapper'.ticks = mapper.ticks + 1
             /\ cpu'.m_ui64CycleCount = cpu.m_ui64CycleCount
        /\ (phase = "phi2" /\ phase' = "phi1") =>
             /\ obs'.order = <<"step", "nmi_edge", "irq_sample", "cycle">>
             /\ cpu'.m_bDetectedNmi =
                   (cpu.m_bDetectedNmi \/ (~cpu.m_bLastNmiStatusLine /\ cpu.m_bNmiStatusLine))
             /\ cpu'.m_bLastNmiStatusLine = cpu.m_bNmiStatusLine
             /\ cpu'.m_bIrqSeenLowPhi2 = (cpu.m_bIrqSeenLowPhi2 \/ cpu.m_bIrqStatusLine)
             /\ cpu'.m_ui64CycleCount = cpu.m_ui64CycleCount + 1
             /\ mapper'.ticks = mapper.ticks
        /\ (phase' = phase) =>
             /\ cpu'.m_ui64CycleCount = cpu.m_ui64CycleCount
             /\ mapper'.ticks = mapper.ticks
      ]_vars

\* A phi2 half has latched an NMI edge and an asserted IRQ line, and the
\* mapper was ticked once in each of the cycles so far.
C1_Witness ==
    /\ phase = "phi1"
    /\ obs.order = <<"step", "nmi_edge", "irq_sample", "cycle">>
    /\ cpu.m_bDetectedNmi
    /\ cpu.m_bLastNmiStatusLine
    /\ cpu.m_bIrqSeenLowPhi2
    /\ cpu.m_ui64CycleCount >= 3
    /\ mapper.ticks = cpu.m_ui64CycleCount

\* C2: in every cycle the phi1 micro-step makes no bus access and the phi2
\* micro-step makes exactly one, whatever the CPU is doing.
C2_OneAccessPerCycle ==
    /\ phase = "phi2" => Len(bus.log) = 0
    /\ (phase = "phi1" /\ cpu.m_ui64CycleCount > 0) => Len(bus.log) = 1

\* A jammed CPU has made its one read of the cycle, after the reset
\* sequence and an instruction ran.
C2_Witness ==
    /\ phase = "phi1"
    /\ obs.step = "Jam_Phi2"
    /\ cpu.m_ui16OpCode = Op.JAM
    /\ cpu.m_ui64CycleCount >= 12
    /\ Len(bus.log) = 1
    /\ bus.log[1].read

\* C5: without a call of ClearNmi(), no second NMI sequence is entered.
C5_NoSecondNmiWithoutClear ==
    ~obs.clearNmiCalled => obs.taken.NMI <= 1

\* C6: a poll that finds the IRQ seen, I clear and no NMI sets
\* m_bHandleIrq; the fetch that finds m_bHandleIrq starts the BRK sequence;
\* a sequence that serves an IRQ uses the vector 0xFFFE; and m_bHandleIrq
\* is only ever set by a poll made while I was 0.
C6_IrqLevelHeld ==
    /\ (obs.poll.made /\ obs.poll.irq /\ ~obs.poll.I /\ ~obs.poll.nmi) => cpu.m_bHandleIrq
    /\ (obs.poll.made /\ ~obs.poll.had /\ cpu.m_bHandleIrq) =>
          (obs.poll.irq /\ ~obs.poll.I /\ ~obs.poll.nmi)
    /\ cpu.m_bHandleIrq => ~obs.pollI
    /\ obs.seqKind = "IRQ" => (cpu.m_ui16OpCode = Op.BRK /\ ~obs.pollI)
    /\ (obs.sel.made /\ obs.serve = "IRQ") => cpu.m_vBrkVector = LSN_V_IRQ_BRK

\* The IRQ sequence was entered twice though ClearIrq() was never called.
C6_Witness ==
    /\ obs.taken.IRQ >= 2
    /\ ~obs.clearIrqCalled
    /\ obs.serve = "IRQ"
    /\ cpu.m_vBrkVector = LSN_V_IRQ_BRK
    /\ obs.step = "Brk_BeginInst"
    /\ cpu.PC = Layout.irq

\* C7: between Tick() and the sample of TickPhi2(), m_bIrqStatusPhi1Flag
\* is the IRQ line as the previous TickPhi2() sampled it and
\* m_bIrqSeenLowPhi2 is false; after TickPhi2() m_bIrqSeenLowPhi2 is the
\* line as just sampled; the CPU never sees an IRQ that no phi2 sampled.
C7_IrqSampledAtPhi2 ==
    /\ phase = "phi2" =>
          (cpu.m_bIrqStatusPhi1Flag = obs.irqSample /\ ~cpu.m_bIrqSeenLowPhi2)
    /\ phase = "phi1" => cpu.m_bIrqSeenLowPhi2 = obs.irqSample
    /\ (cpu.m_bIrqStatusPhi1Flag \/ cpu.m_bIrqSeenLowPhi2 \/ cpu.m_bHandleIrq
          \/ obs.taken.IRQ > 0) => obs.irqSampledHigh

\* A pulse on the IRQ line fell between two samples while I was 0, and the
\* program ran on.
C7_Witness ==
    /\ obs.pulseUnseen
    /\ ~obs.irqSampledHigh
    /\ ~HasBit(cpu.ui8Status, LSN_SF_IRQ)
    /\ obs.taken.IRQ = 0
    /\ cpu.m_ui64CycleCount >= 14

\* C8: the vector is 0xFFFC if the reset is pending, else 0xFFFA if an NMI
\* is detected, else 0xFFFE; the sequence ends with PC the little-endian
\* word at the vector.
C8_VectorPriority ==
    /\ obs.sel.made =>
          cpu.m_vBrkVector = IF obs.sel.reset THEN 65532
                             ELSE IF obs.sel.nmi THEN 65530
                             ELSE 65534
    /\ obs.step = "Brk_BeginInst" =>
          cpu.PC = Rom(bus.cart, cpu.m_vBrkVector)
                   + 256 * Rom(bus.cart, cpu.m_vBrkVector + 1)

\* An NMI was detected while the sequence of an IRQ ran: the NMI vector
\* was chosen and PC is the NMI handler.
C8_Witness ==
    /\ obs.step = "Brk_BeginInst"
    /\ obs.seqKind = "IRQ"
    /\ obs.sel.nmi
    /\ ~obs.sel.reset
    /\ cpu.m_vBrkVector = 65530
    /\ cpu.PC = 36880

\* C9: a status byte written to the stack has bit 4 set when PHP or a BRK
\* opcode started the push, and clear when an NMI, an IRQ or the reset did.
C9_BreakBitByCause ==
    obs.push.written =>
       /\ (obs.push.cause = "PHP" \/ obs.push.start = "BRK") => HasBit(obs.push.val, 16)
       /\ obs.push.start \in {"NMI", "IRQ", "RESET"} => ~HasBit(obs.push.val, 16)

\* C10: a status byte written to the stack by PHP or by the sequence of a
\* BRK opcode has bit 5 set.
C10_ReservedBitPushed ==
    (obs.push.written /\ (obs.push.cause = "PHP" \/ obs.push.start = "BRK"))
       => HasBit(obs.push.val, 32)

\* PHP pushed 0x30 from a status register of 0x20.
C10_Witness ==
    /\ obs.push.written
    /\ obs.push.cause = "PHP"
    /\ obs.push.val = 48
    /\ cpu.ui8Status = 32

\* C11 as stated: bit 4 of the status register is 0 in every reachable
\* state, the state ResetToKnown() leaves included.
C11_BreakNeverInRegister == ~HasBit(cpu.ui8Status, LSN_SF_BREAK)

\* C11: bit 4 of the status register is set only between ResetToKnown(),
\* which stores 0x34, and the SetBrkFlags step of the reset sequence; from
\* then on (after PLP, RTI, every BRK, NMI or IRQ sequence) it is 0.
C11_BreakOnlyUntilResetServed ==
    HasBit(cpu.ui8Status, LSN_SF_BREAK) =>
       /\ cpu.resetSeq
       /\ cpu.m_ui8FuncIndex <= 9
       /\ cpu.ui8Status = 52

\* PLP pulled 0xFF and left 0xEF in the status register.
C11_Witness ==
    /\ obs.step = "Plp_BeginInst"
    /\ cpu.m_ui8Operand = 255
    /\ cpu.ui8Status = 239

---------------------------------------------------------------------------
(* The host calls ResetToKnown() on a CPU in some earlier state, then      *)
(* ticks it (specification SpecReset).                                     *)

\* Register values <<A, X, Y, S, P, PC>> the CPU may hold before the call.
PriorRegs == { <<0, 0, 0, 0, 0, 0>>, <<90, 17, 255, 16, 231, 4660>> }

\* The CPU before the call: at an instruction boundary or inside a PLP,
\* with or without an NMI detected and polled, with or without an IRQ polled.
InitReset ==
    /\ \E p \in 1..Len(Programs), r \in PriorRegs, nmi \in BOOLEAN, irq \in BOOLEAN,
          mid \in BOOLEAN :
         /\ cpu = [Constructed EXCEPT
                      !.A = r[1], !.X = r[2], !.Y = r[3], !.S = r[4],
                      !.ui8Status = r[5], !.PC = r[6],
                      !.m_bDetectedNmi = nmi, !.m_bHandleNmi = nmi, !.m_bHandleIrq = irq,
                      !.m_ui16OpCode = IF mid THEN Op.PLP ELSE Op.NOP,
                      !.m_ui8FuncIndex = IF mid THEN 3 ELSE 0,
                      !.m_bAllowWritingToPc = ~mid,
                      !.m_ui64CycleCount = IF mid THEN 12 ELSE 0,
                      !.m_pfTickFunc = IF mid THEN "Tick_InstructionCycleStd" ELSE @,
                      !.m_pfTickFuncCopy = IF mid THEN "Tick_InstructionCycleStd" ELSE @]
         /\ bus = Console(p).bus
    /\ mapper = [ticks |-> 0]
    /\ phase = "prior"
    /\ obs = ObsInit

\* The host calls CCpu6502::ResetToKnown().
CallResetToKnown ==
    /\ phase = "prior"
    /\ \E m \in {ResetToKnown(Machine)} :
          /\ cpu' = m.cpu
          /\ bus' = m.bus
          /\ mapper' = m.mapper
    /\ phase' = "phi1"
    /\ obs' = [obs EXCEPT !.step = "ResetToKnown"]

NextReset ==
    \/ CallResetToKnown
    \/ Tick
    \/ TickPhi2

SpecReset == InitReset /\ [][NextReset]_vars

\* C12: right after ResetToKnown(), whatever the CPU held before, PC is the
\* word the bus gives at 0xFFFC/0xFFFD, S is 0xFD, P is 0x34, A, X and Y
\* are 0 and m_bIsReset is set; the first opcode fetch then discards its
\* byte for the BRK sequence, and the first vector selected is 0xFFFC.
C12_ResetToKnown ==
    /\ obs.step = "ResetToKnown" =>
          /\ cpu.PC = Word(Rom(bus.cart, LSN_V_RESET), Rom(bus.cart, LSN_V_RESET + 1))
          /\ cpu.S = 253
          /\ cpu.ui8Status = 52
          /\ cpu.A = 0 /\ cpu.X = 0 /\ cpu.Y = 0
          /\ cpu.m_bIsReset
    /\ (phase = "phi1" /\ cpu.m_ui64CycleCount = 1) =>
          /\ obs.step = "Fetch_Opcode_IncPc_Phi2"
          /\ obs.seqKind = "RESET"
          /\ cpu.m_ui16OpCode = Op.BRK
          /\ bus.log[1].addr = cpu.PC
    /\ (obs.sel.made /\ cpu.m_ui64CycleCount = 4) =>
          /\ obs.serve = "RESET"
          /\ cpu.m_vBrkVector = LSN_V_RESET

\* ResetToKnown() was called on a CPU that had polled an NMI.
C12_Witness ==
    /\ obs.step = "ResetToKnown"
    /\ cpu.m_bHandleNmi
    /\ cpu.m_bIsReset
    /\ cpu.PC = Layout.main
    /\ cpu.S = 253
    /\ cpu.ui8Status = 52

---------------------------------------------------------------------------
(* Properties of the reset sequence (specification Spec, whose first       *)
(* seven cycles serve the reset).                                          *)

\* C13: each of the first seven cycles makes one bus read and no write;
\* cycles 3, 4 and 5 read the stack page at 0x01FD, 0x01FC and 0x01FB,
\* cycles 6 and 7 read the vector at 0xFFFC and 0xFFFD; PC stays as it was
\* through the seven cycles; in the seventh cycle S becomes 0xFA, and after
\* it m_bIsReset is clear; the step that follows copies the vector word to
\* PC, and the eighth cycle fetches the first opcode of the program.
C13_ResetSequence ==
    LET n == cpu.m_ui64CycleCount
    IN  /\ (phase = "phi1" /\ n \in 1..7) =>
              /\ Len(bus.log) = 1
              /\ bus.log[1].read
              /\ bus.log[1].addr = << Layout.main, Layout.main, 509, 508, 507,
                                      LSN_V_RESET, LSN_V_RESET + 1 >>[n]
              /\ cpu.PC = Layout.main
              /\ obs.seqKind = "RESET"
              /\ cpu.S = IF n = 7 THEN 250 ELSE 253
        /\ (phase = "phi1" /\ n = 7) =>
              /\ ~cpu.m_bIsReset
              /\ cpu.m_ui16Address = Word(Rom(bus.cart, LSN_V_RESET),
                                          Rom(bus.cart, LSN_V_RESET + 1))
        /\ (phase = "phi2" /\ n = 7) =>
              /\ obs.step = "Brk_BeginInst"
              /\ cpu.PC = cpu.m_ui16Address
              /\ cpu.S = 250
              /\ ~cpu.m_bIsReset
        /\ (phase = "phi1" /\ n = 8) =>
              /\ obs.step = "Fetch_Opcode_IncPc_Phi2"
              /\ obs.seqKind # "RESET"
              /\ bus.log[1].addr = Layout.main

\* The fifth cycle of the reset read the stack at 0x01FB where a write of
\* the status would go, and S was still 0xFD.
C13_Witness ==
    /\ phase = "phi1"
    /\ cpu.m_ui64CycleCount = 5
    /\ obs.step = "Push_S_Phi2"
    /\ bus.log[1].read
    /\ bus.log[1].addr = 507
    /\ cpu.S = 253
    /\ cpu.m_vBrkVector = LSN_V_RESET

\* C18: once the Jam micro-step has run, every step leaves PC and the
\* opcode as they are and is followed by a Jam micro-step again: no opcode
\* is fetched and no interrupt sequence is entered, whatever the NMI and
\* IRQ lines do; every later cycle makes one access, a read of the address
\* the JAM opcode was fetched from, and memory is never written.
C18_JamStays ==
    [][ (cpu.m_ui16OpCode = Op.JAM /\ obs.step \in {"Jam", "Jam_Phi2"}) =>
          /\ cpu'.PC = cpu.PC
          /\ cpu'.m_ui16OpCode = Op.JAM
          /\ obs'.step \in {"Jam", "Jam_Phi2"}
          /\ cpu'.m_ui8FuncIndex \in {1, 2}
          /\ obs'.fetchPc = obs.fetchPc
          /\ obs'.seqKind = "OP"
          /\ ~cpu'.m_bHandleNmi /\ ~cpu'.m_bHandleIrq /\ ~cpu'.m_bIsReset
          /\ obs'.taken = obs.taken
          /\ bus'.ram = bus.ram
          /\ (phase = "phi1" /\ phase' = "phi2") => bus'.log = <<>>
          /\ (phase = "phi2" /\ phase' = "phi1") =>
                bus'.log = <<[addr |-> obs.fetchPc, val |-> Op.JAM, read |-> TRUE]>>
      ]_vars

\* The CPU has been jammed for ten cycles or more, with an NMI edge latched
\* and an IRQ that I = 0 does not mask seen at phi1.
C18_Witness ==
    /\ cpu.m_ui16OpCode = Op.JAM
    /\ obs.step = "Jam_Phi2"
    /\ phase = "phi1"
    /\ cpu.m_ui64CycleCount >= 20
    /\ cpu.m_bDetectedNmi
    /\ cpu.m_bIrqStatusPhi1Flag
    /\ ~HasBit(cpu.ui8Status, LSN_SF_IRQ)
    /\ obs.fetchPc = Layout.main + 1
    /\ cpu.PC = Layout.main
    /\ bus.log = <<[addr |-> Layout.main + 1, val |-> Op.JAM, read |-> TRUE]>>

\* The step is the phi2 half that fetches an opcode.
IsFetch ==
    /\ phase = "phi2"
    /\ phase' = "phi1"
    /\ StepName(cpu) = "Fetch_Opcode_IncPc_Phi2"

\* The fetch reads the byte at PC and leaves PC alone; with an interrupt or
\* the reset due it drops the byte for the BRK sequence, leaves no
\* increment pending and locks PC; else the byte is the opcode.
FetchDecides ==
    IsFetch =>
      /\ Len(bus'.log) = 1
      /\ bus'.log[1].read
      /\ bus'.log[1].addr = cpu.PC
      /\ cpu'.PC = cpu.PC
      /\ cpu'.m_ui8FuncIndex = 1
      /\ IF cpu.m_bHandleNmi \/ cpu.m_bHandleIrq \/ cpu.m_bIsReset
         THEN /\ cpu'.m_ui16OpCode = Op.BRK
              /\ cpu'.m_ui16PcModify = 0
              /\ ~cpu'.m_bAllowWritingToPc
              /\ obs'.seqKind \in {"RESET", "NMI", "IRQ"}
         ELSE /\ cpu'.m_ui16OpCode = bus'.log[1].val
              /\ cpu'.m_ui16PcModify = 1
              /\ obs'.seqKind \in {"OP", "BRK"}

\* The sequence an interrupt or the reset started leaves PC alone until
\* its last micro-step loads the vector that SelectBrkVectors chose.
SequenceHoldsPc ==
    (obs.seqKind \in {"RESET", "NMI", "IRQ"} /\ cpu.m_ui16OpCode = Op.BRK
       /\ cpu.m_pfTickFunc = "Tick_InstructionCycleStd") =>
      /\ cpu.m_ui8FuncIndex \in 1..12 => cpu'.PC = cpu.PC
      /\ (cpu.m_ui8FuncIndex = 13 /\ phase' # phase) =>
            /\ obs.sel.made
            /\ cpu'.PC = cpu.m_ui16Address

\* The step is the first phi1 half after the fetch of an opcode that runs.
IsAfterFetch ==
    /\ phase = "phi1"
    /\ phase' = "phi2"
    /\ obs.step = "Fetch_Opcode_IncPc_Phi2"
    /\ obs.seqKind \in {"OP", "BRK"}

C20_WitnessJam ==
    /\ phase = "phi2"
    /\ obs.step = "Jam"
    /\ cpu.m_ui64CycleCount < 12
    /\ cpu.PC = U16(obs.fetchPc + 65535)

---------------------------------------------------------------------------
(* DMA (specification SpecDma): the main loop of the cartridge writes a    *)
(* page number to 0x4014; the devices change the interrupt lines while     *)
(* the first or the last byte of the transfer is on its way.               *)

\* The cycles a run of SpecDma is followed for.
MaxDmaCycles == 620

\* The transfer offsets at which the devices change the lines.
DmaLineOffsets == {0, 255}

\* The internal RAM before the program runs.
DmaRam == (512 :> 17) @@ (513 :> 165) @@ (640 :> 90) @@ (767 :> 99)

InitDma ==
    /\ \E v \in DmaPages, l \in DOMAIN DmaLeads :
         \E m \in {ResetToKnown([Console(DmaCart(v, l)) EXCEPT !.bus.ram = DmaRam])} :
            /\ cpu = m.cpu
            /\ bus = m.bus
            /\ mapper = m.mapper
    /\ phase = "phi1"
    /\ obs = ObsInit

\* The host calls CCpu6502::Tick().
TickDma ==
    /\ phase = "phi1"
    /\ cpu.m_ui64CycleCount < MaxDmaCycles
    /\ \E m1 \in {CCpu6502_Tick(Machine)} :
          /\ cpu' = m1.cpu
          /\ bus' = m1.bus
          /\ mapper' = m1.mapper
          /\ obs' = ObsPhi1(obs, cpu, m1)
    /\ phase' = "phi2"

\* A device changes a line during a transfer.
DmaLineTime ==
    /\ cpu.m_pfTickFunc = "Tick_Dma"
    /\ cpu.m_ui8DmaPos \in DmaLineOffsets

NmiDma == DmaLineTime /\ Nmi

ClearNmiDma == DmaLineTime /\ ClearNmi

IrqDma == DmaLineTime /\ Irq

ClearIrqDma == DmaLineTime /\ ClearIrq

NextDma ==
    \/ TickDma
    \/ TickPhi2
    \/ NmiDma
    \/ ClearNmiDma
    \/ IrqDma
    \/ ClearIrqDma

SpecDma == InitDma /\ [][NextDma]_vars

---------------------------------------------------------------------------
(* Properties of DMA (specification SpecDma).                              *)

\* The cycles a transfer steals when its first stolen cycle is cycle n.
DmaCycles(n) == (IF n % 2 = 0 THEN 1 ELSE 2) + 2 * DmaLength

\* C14: a write to 0x4014 starts a DMA transfer; the transfer steals 513
\* cycles when its first cycle is even and 514 when it is odd (one or two
\* cycles of alignment, then 256 reads and 256 writes), and the program
\* resumes in the cycle after them: a transfer whose first cycle is cycle
\* 100 gives the CPU back in cycle 613.
C14_DmaSteals ==
    /\ (phase = "phi1" /\ obs.step = "Write_A_To_AddrOrPtr_Phi2"
          /\ bus.log[1].addr = 16404) =>
          /\ cpu.m_pfTickFunc = "Tick_Dma"
          /\ obs.dma.on
          /\ obs.dma.stolen = 0
          /\ obs.dma.first = cpu.m_ui64CycleCount
    /\ obs.dma.on =>
          /\ cpu.m_pfTickFunc = "Tick_Dma"
          /\ obs.dma.stolen = cpu.m_ui64CycleCount - obs.dma.first
          /\ obs.dma.stolen < DmaCycles(obs.dma.first)
          /\ obs.dma.stolen <= 1 + (obs.dma.first % 2) + obs.dma.reads + obs.dma.writes
    /\ (~obs.dma.on /\ obs.dma.done > 0) =>
          /\ obs.dma.stolen = DmaCycles(obs.dma.first)
          /\ obs.dma.stolen \in {513, 514}
          /\ obs.dma.stolen = 513 <=> obs.dma.first % 2 = 0
          /\ obs.dma.reads = 256
          /\ obs.dma.writes = 256
          /\ obs.dma.resumed = obs.dma.first + obs.dma.stolen
          /\ obs.dma.first = 100 => obs.dma.resumed = 613
    /\ (~obs.dma.on /\ obs.dma.cont) => cpu.m_ui64CycleCount = obs.dma.resumed

\* A transfer that began in cycle 100 has given the CPU back in cycle 613.
C14_Witness ==
    /\ ~obs.dma.on
    /\ obs.dma.done = 1
    /\ obs.dma.first = 100
    /\ obs.dma.stolen = 513
    /\ obs.dma.resumed = 613
    /\ obs.dma.cont

\* A transfer that began in an odd cycle has stolen 514 cycles.
C14_WitnessOdd ==
    /\ ~obs.dma.on
    /\ obs.dma.done = 1
    /\ obs.dma.first = 13
    /\ obs.dma.stolen = 514

\* C15: whatever byte v was written to 0x4014, the cycles of the transfer
\* after the alignment alternate between one read and one write: the read
\* of offset n (n = 0..255, in order) is from v * 256 + n, the write that
\* follows it puts the byte just read into 0x2004, and the transfer
\* writes nowhere else.
C15_DmaPairs ==
    /\ (phase = "phi2" /\ obs.dma.on) => bus.log = <<>>
    /\ (phase = "phi1" /\ obs.step = "Tick_Dma") =>
          /\ Len(bus.log) <= 1
          /\ obs.dma.reads \in 0..256
          /\ bus.log = <<>> => (obs.dma.reads = 0 /\ obs.dma.writes = 0)
          /\ (bus.log # <<>> /\ bus.log[1].read) =>
                /\ obs.dma.reads = obs.dma.writes + 1
                /\ bus.log[1].addr = 256 * obs.dma.page + obs.dma.reads - 1
                /\ obs.dma.rd = bus.log[1].val
                /\ obs.dma.page = 2 => bus.log[1].val = Cell(DmaRam, bus.log[1].addr, 0)
          /\ (bus.log # <<>> /\ ~bus.log[1].read) =>
                /\ obs.dma.writes = obs.dma.reads
                /\ bus.log[1].addr = 8196
                /\ bus.log[1].val = obs.dma.rd
          /\ ~obs.dma.on <=> (obs.dma.writes = 256 /\ bus.log # <<>> /\ ~bus.log[1].read)

\* The last byte of page 2 (offset 255, which holds 99) went to 0x2004.
C15_Witness ==
    /\ phase = "phi1"
    /\ obs.step = "Tick_Dma"
    /\ ~obs.dma.on
    /\ obs.dma.page = 2
    /\ obs.dma.writes = 256
    /\ bus.log = <<[addr |-> 8196, val |-> 99, read |-> FALSE]>>

\* C16: BeginDma leaves the saved tick function as it was; no step taken
\* while the DMA tick is installed changes PC, A, X, Y, S, P, the opcode,
\* the micro-step index or the saved tick function; the step that makes
\* the 256th write installs the saved tick function again; and the first
\* tick after it runs the micro-step the instruction had reached when the
\* transfer began.
C16_DmaFreezesInstruction ==
    [][ /\ (cpu.m_pfTickFunc # "Tick_Dma" /\ cpu'.m_pfTickFunc = "Tick_Dma") =>
             /\ cpu'.m_pfTickFuncCopy = cpu.m_pfTickFuncCopy
             /\ cpu'.m_pfTickFuncCopy = "Tick_InstructionCycleStd"
        /\ cpu.m_pfTickFunc = "Tick_Dma" =>
             /\ DmaRegs(cpu') = DmaRegs(cpu)
             /\ DmaRegs(cpu) = obs.dma.regs
        /\ (cpu.m_pfTickFunc = "Tick_Dma" /\ cpu'.m_pfTickFunc # "Tick_Dma") =>
             /\ cpu'.m_pfTickFunc = cpu.m_pfTickFuncCopy
             /\ obs.dma.writes = 255
             /\ obs'.dma.writes = 256
        /\ (cpu.m_pfTickFunc = "Tick_Dma" /\ cpu'.m_pfTickFunc = "Tick_Dma") =>
             obs'.dma.writes < 256
        /\ (~obs.dma.cont /\ obs'.dma.cont) =>
             /\ cpu.m_ui16OpCode = obs.dma.regs[7]
             /\ cpu.m_ui8FuncIndex = obs.dma.regs[8]
             /\ obs'.step = InstrSteps(obs.dma.regs[7])[obs.dma.regs[8] + 1].fn
             /\ DmaRegs(cpu') =
                   DmaRegs(RunStep(Machine, InstrSteps(obs.dma.regs[7])[obs.dma.regs[8] + 1]).cpu)
      ]_vars

\* The STA that started a transfer has run its last micro-step, the one it
\* had reached before the transfer, in the first tick after the transfer.
C16_Witness ==
    /\ obs.dma.cont
    /\ obs.dma.done = 1
    /\ obs.dma.regs[7] = Op.STA_ABS
    /\ obs.dma.regs[8] = 7
    /\ obs.step = "Null"
    /\ cpu.m_ui8FuncIndex = 0
    /\ cpu.PC = obs.dma.regs[1]
    /\ cpu.A = obs.dma.page

\* C17: the cycles of a DMA transfer run the interrupt detection of every
\* cycle: the phi1 half copies m_bIrqSeenLowPhi2 to m_bIrqStatusPhi1Flag
\* and clears it, the phi2 half latches a rising NMI line into
\* m_bDetectedNmi and ors the IRQ line into m_bIrqSeenLowPhi2; and no step
\* of the transfer, the last one included, clears m_bDetectedNmi, so an
\* edge latched during the transfer is pending when the transfer ends.
C17_DmaKeepsDetecting ==
    [][ cpu.m_pfTickFunc = "Tick_Dma" =>
          /\ (phase = "phi1" /\ phase' = "phi2") =>
                /\ cpu'.m_bIrqStatusPhi1Flag = cpu.m_bIrqSeenLowPhi2
                /\ cpu'.m_bIrqSeenLowPhi2 = FALSE
                /\ cpu'.m_bDetectedNmi = cpu.m_bDetectedNmi
          /\ (phase = "phi2" /\ phase' = "phi1") =>
                /\ cpu'.m_bDetectedNmi =
                      (cpu.m_bDetectedNmi \/ (~cpu.m_bLastNmiStatusLine /\ cpu.m_bNmiStatusLine))
                /\ cpu'.m_bLastNmiStatusLine = cpu.m_bNmiStatusLine
                /\ cpu'.m_bIrqSeenLowPhi2 = (cpu.m_bIrqSeenLowPhi2 \/ cpu.m_bIrqStatusLine)
                /\ cpu'.m_bIrqStatusPhi1Flag = cpu.m_bIrqStatusPhi1Flag
          /\ cpu.m_bDetectedNmi => cpu'.m_bDetectedNmi
          /\ (obs'.dma.nmiIn /\ ~obs'.dma.on) => cpu'.m_bDetectedNmi
      ]_vars

\* A transfer has just ended with the NMI edge latched while its first
\* byte was on its way still pending, the line low again since, and the
\* IRQ line seen in its last cycle.
C17_Witness ==
    /\ phase = "phi1"
    /\ obs.step = "Tick_Dma"
    /\ ~obs.dma.on
    /\ obs.dma.done = 1
    /\ obs.dma.nmiIn
    /\ cpu.m_bDetectedNmi
    /\ ~cpu.m_bNmiStatusLine
    /\ cpu.m_bIrqSeenLowPhi2

---------------------------------------------------------------------------
(* Branches (specification SpecBranch): a conditional branch in RAM, with  *)
(* no cartridge, is followed from its opcode fetch to the fetch after it.  *)

\* The cycles a run of SpecBranch is followed for.
MaxBranchCycles == 9

\* The addresses of the branch opcode.
BranchAt == {0, 240, 253, 254, 2046}

\* The offset bytes.
BranchOffsets == {0, 1, 13, 127, 128, 253, 254, 255}

\* The status registers: no flag, Z, and N V C.
BranchStatus == {36, 38, 229}

BranchOps == {Op.BPL, Op.BMI, Op.BVC, Op.BVS, Op.BCC, Op.BCS, Op.BNE, Op.BEQ}

\* The opcodes the instruction table of the model holds.
KnownOps == {Op[k] : k \in DOMAIN Op}

\* The CPU between two instructions, the last of which was a NOP: the next
\* micro-step is the opcode fetch at PC = p.
InitBranch ==
    /\ \E p \in BranchAt, d \in BranchOffsets, st \in BranchStatus, op \in BranchOps :
          /\ cpu = [Constructed EXCEPT !.PC = p, !.S = 253, !.ui8Status = st,
                                       !.m_ui16OpCode = Op.NOP, !.m_ui8FuncIndex = 0,
                                       !.m_pfTickFunc = "Tick_InstructionCycleStd",
                                       !.m_pfTickFuncCopy = "Tick_InstructionCycleStd"]
          /\ bus = [Console(0).bus EXCEPT !.ram = (p :> op) @@ (p + 1 :> d)]
    /\ mapper = Console(0).mapper
    /\ phase = "phi2"
    /\ obs = ObsInit

\* The host calls CCpu6502::Tick(), as long as the opcode is in the table.
TickBranch ==
    /\ phase = "phi1"
    /\ cpu.m_ui64CycleCount < MaxBranchCycles
    /\ cpu.m_ui16OpCode \in KnownOps
    /\ \E m1 \in {CCpu6502_Tick(Machine)} :
          /\ cpu' = m1.cpu
          /\ bus' = m1.bus
          /\ mapper' = m1.mapper
          /\ obs' = ObsPhi1(obs, cpu, m1)
    /\ phase' = "phi2"

\* What an opcode fetch adds to the history.
ObsBranch(o, c, m1) ==
    IF StepName(c) # "Fetch_Opcode_IncPc_Phi2" THEN o
    ELSE [o EXCEPT !.br = [n |-> @.n + 1, pc |-> c.PC, cycle |-> c.m_ui64CycleCount,
                           op |-> m1.cpu.m_ui16OpCode,
                           prevPc |-> @.pc, prevCycle |-> @.cycle, prevOp |-> @.op]]

\* The host calls CCpu6502::TickPhi2().
TickPhi2Branch ==
    /\ phase = "phi2"
    /\ \E m1 \in {CCpu6502_TickPhi2(Machine)} :
          /\ cpu' = m1.cpu
          /\ bus' = m1.bus
          /\ mapper' = m1.mapper
          /\ obs' = ObsBranch(ObsPhi2(obs, cpu, m1), cpu, m1)
    /\ phase' = "phi1"

NextBranch ==
    \/ TickBranch
    \/ TickPhi2Branch

SpecBranch == InitBranch /\ [][NextBranch]_vars

\* Whether the branch with opcode op is taken when the status is st.
BranchTaken(op, st) ==
    CASE op = Op.BPL -> ~HasBit(st, LSN_SF_NEGATIVE)
      [] op = Op.BMI -> HasBit(st, LSN_SF_NEGATIVE)
      [] op = Op.BVC -> ~HasBit(st, LSN_SF_OVERFLOW)
      [] op = Op.BVS -> HasBit(st, LSN_SF_OVERFLOW)
      [] op = Op.BCC -> ~HasBit(st, LSN_SF_CARRY)
      [] op = Op.BCS -> HasBit(st, LSN_SF_CARRY)
      [] op = Op.BNE -> ~HasBit(st, LSN_SF_ZERO)
      [] op = Op.BEQ -> HasBit(st, LSN_SF_ZERO)

\* C19: when the opcode fetch after a conditional branch at p with offset
\* byte d has been made: if the branch was not taken, the fetch is at p + 2
\* and in the second cycle after the branch's own fetch; if it was taken,
\* the fetch is at (p + 2 + d) mod 2^16, d taken as signed, in the third
\* cycle after when that address is in the page of p + 2 and in the fourth
\* when it is not; the register PC holds the address of the fetch.
C19_BranchTiming ==
    (phase = "phi1" /\ obs.step = "Fetch_Opcode_IncPc_Phi2"
       /\ obs.br.n >= 2 /\ obs.br.prevOp \in BranchOps) =>
       LET p      == obs.br.prevPc
           d      == Cell(bus.ram, U16(p + 1) % LSN_INTERNAL_RAM, 0)
           next   == U16(p + 2)
           target == (p + 2 + (IF d >= 128 THEN d - 256 ELSE d) + 65536) % 65536
           cycles == obs.br.cycle - obs.br.prevCycle
       IN  /\ cpu.PC = obs.br.pc
           /\ bus.log[1].addr = obs.br.pc
           /\ IF ~BranchTaken(obs.br.prevOp, cpu.ui8Status)
              THEN cycles = 2 /\ obs.br.pc = next
              ELSE /\ obs.br.pc = target
                   /\ cycles = IF Hi(target) = Hi(next) THEN 3 ELSE 4

\* BNE with offset 0x7F at 0x00F0 and Z = 0 took four cycles and the next
\* opcode is fetched at 0x0171.
C19_Witness ==
    /\ phase = "phi1"
    /\ obs.step = "Fetch_Opcode_IncPc_Phi2"
    /\ obs.br.n = 2
    /\ obs.br.prevOp = Op.BNE
    /\ obs.br.prevPc = 240
    /\ Cell(bus.ram, 241, 0) = 127
    /\ ~HasBit(cpu.ui8Status, LSN_SF_ZERO)
    /\ obs.br.cycle - obs.br.prevCycle = 4
    /\ cpu.PC = 369

\* A branch was not taken, and one was taken within the page.
C19_WitnessShort ==
    /\ phase = "phi1"
    /\ obs.step = "Fetch_Opcode_IncPc_Phi2"
    /\ obs.br.n = 2
    /\ obs.br.prevOp = Op.BEQ
    /\ obs.br.prevPc = 240
    /\ obs.br.cycle - obs.br.prevCycle \in {2, 3}


---------------------------------------------------------------------------
(* Single instructions (specification SpecInstr): an instruction in RAM,   *)
(* with no cartridge, is followed from its opcode fetch, every bus access  *)
(* recorded.                                                               *)

\* Where the instruction is.
InstrAt == 240

\* A case: the bytes in RAM (the instruction among them) and the registers.
InstrCase(ram, a, x, y, st) == [ram |-> ram, A |-> a, X |-> x, Y |-> y, P |-> st]

\* The pointers of the indirect jumps.
JmpPointers == {255, 384, 511, 767, 2047}

\* The bytes at the pointer: the low byte of the target, and the high byte.
JmpTargets == {<<52, 18>>, <<0, 3>>}

\* The address after q in the page of q.
SamePageNext(q) == Word(U8(Lo(q) + 1), Hi(q))

\* JMP (q): the low byte of the target at q, the high byte after it in the
\* page of q, and, when that is not q + 1, the byte 5 at q + 1.
JmpCases ==
    { InstrCase((InstrAt :> Op.JMP_IND) @@ (InstrAt + 1 :> Lo(q)) @@ (InstrAt + 2 :> Hi(q))
                  @@ (q :> t[1]) @@ (SamePageNext(q) :> t[2])
                  @@ (U16(q + 1) % LSN_INTERNAL_RAM :> 5),
                0, 0, 0, 36) : q \in JmpPointers, t \in JmpTargets }

\* The base addresses and the indices of the indexed reads.
IndexBases == {384, 496, 767, 2047, 65520}

IndexValues == {0, 1, 15, 16, 255}

\* Where (indirect),Y finds its base address: in page zero, the second
\* byte wrapping to 0x0000.
IndexPointers == {32, 255}

\* The address of an indexed read before its high byte is fixed.
Unfixed(b, i) == Word(U8(Lo(b) + i), Hi(b))

\* The bytes of an indexed read: 0x42 at the address, 0x99 at the unfixed
\* address when that is another one.
IndexData(b, i) ==
    (U16(b + i) % LSN_INTERNAL_RAM :> 66) @@ (Unfixed(b, i) % LSN_INTERNAL_RAM :> 153)

\* LDA b,X and LDA b,Y, the other index register being 3, and LDA (z),Y.
IndexCases ==
    { InstrCase((InstrAt :> Op.LDA_ABS_X) @@ (InstrAt + 1 :> Lo(b)) @@ (InstrAt + 2 :> Hi(b))
                  @@ IndexData(b, i), 0, i, 3, 36) : b \in IndexBases, i \in IndexValues }
    \cup
    { InstrCase((InstrAt :> Op.LDA_ABS_Y) @@ (InstrAt + 1 :> Lo(b)) @@ (InstrAt + 2 :> Hi(b))
                  @@ IndexData(b, i), 0, 3, i, 36) : b \in IndexBases, i \in IndexValues }
    \cup
    UNION { { InstrCase((InstrAt :> Op.LDA_IND_Y) @@ (InstrAt + 1 :> z)
                          @@ (z :> Lo(b)) @@ (U8(z + 1) :> Hi(b)) @@ IndexData(b, i),
                        0, 3, i, 36) : b \in IndexBases, i \in IndexValues }
            : z \in IndexPointers }

\* STA b,X and STA b,Y, the other index register being 3, and STA (z),Y:
\* A holds 0x42.
StoreCases ==
    { InstrCase((InstrAt :> Op.STA_ABS_X) @@ (InstrAt + 1 :> Lo(b)) @@ (InstrAt + 2 :> Hi(b))
                  @@ IndexData(b, i), 66, i, 3, 36) : b \in IndexBases, i \in IndexValues }
    \cup
    { InstrCase((InstrAt :> Op.STA_ABS_Y) @@ (InstrAt + 1 :> Lo(b)) @@ (InstrAt + 2 :> Hi(b))
                  @@ IndexData(b, i), 66, 3, i, 36) : b \in IndexBases, i \in IndexValues }
    \cup
    UNION { { InstrCase((InstrAt :> Op.STA_IND_Y) @@ (InstrAt + 1 :> z)
                          @@ (z :> Lo(b)) @@ (U8(z + 1) :> Hi(b)) @@ IndexData(b, i),
                        66, 3, i, 36) : b \in IndexBases, i \in IndexValues }
            : z \in IndexPointers }


\* The read-modify-write instructions at an address holding v.
RmwAddrs == {384, 2047}

RmwValues == {0, 1, 127, 128, 255}

RmwCases ==
    { InstrCase((InstrAt :> k[1]) @@ (InstrAt + 1 :> Lo(k[2])) @@ (InstrAt + 2 :> Hi(k[2]))
                  @@ (k[2] :> k[3]), k[4], 3, 4, k[5])
        : k \in RmwOps \X RmwAddrs \X RmwValues \X {0, 129} \X {36, 37} }


\* The registers of the unstable stores: all bits set, or two bits.
ShRegs == {255, 6}

\* SHA b,Y, SHS b,Y and SHX b,Y with index Y, SHY b,X with index X, and
\* SHA (0x20),Y.
ShCases ==
    { InstrCase((InstrAt :> k[1]) @@ (InstrAt + 1 :> Lo(k[2])) @@ (InstrAt + 2 :> Hi(k[2]))
                  @@ IndexData(k[2], k[3]),
                k[4], IF k[1] = Op.SHY_ABS_X THEN k[3] ELSE k[5],
                IF k[1] = Op.SHY_ABS_X THEN k[5] ELSE k[3], 36)
        : k \in {Op.SHA_ABS_Y, Op.SHS_ABS_Y, Op.SHX_ABS_Y, Op.SHY_ABS_X}
                  \X IndexBases \X IndexValues \X ShRegs \X ShRegs }
    \cup
    { InstrCase((InstrAt :> Op.SHA_IND_Y) @@ (InstrAt + 1 :> 32)
                  @@ (32 :> Lo(k[1])) @@ (33 :> Hi(k[1])) @@ IndexData(k[1], k[2]),
                k[3], k[4], k[2], 36)
        : k \in IndexBases \X IndexValues \X ShRegs \X ShRegs }


\* The status registers the program can have: U set, B clear.
StatusValues == { st \in 0..255 : HasBit(st, LSN_SF_RESERVED) /\ ~HasBit(st, LSN_SF_BREAK) }

\* PHP followed by PLP from every status; PLP alone, pulling every byte.
PhpPlpCases ==
    { InstrCase((InstrAt :> Op.PHP) @@ (InstrAt + 1 :> Op.PLP), 0, 0, 0, st) :
        st \in StatusValues }
    \cup
    { InstrCase((InstrAt :> Op.PLP) @@ (256 + 254 :> v), 0, 0, 0, 36) : v \in 0..255 }

\* The cases the runs begin with.
InstrCases == JmpCases \cup IndexCases \cup PhpPlpCases \cup StoreCases
              \cup RmwCases \cup ShCases

\* The CPU between two instructions, the last of which was a NOP: the next
\* micro-step is the opcode fetch at InstrAt, with the memory and the
\* registers of case k.
InstrStart(k) ==
    /\ cpu = [Constructed EXCEPT !.PC = InstrAt, !.S = 253, !.ui8Status = k.P,
                                 !.A = k.A, !.X = k.X, !.Y = k.Y,
                                 !.m_ui16OpCode = Op.NOP, !.m_ui8FuncIndex = 0,
                                 !.m_pfTickFunc = "Tick_InstructionCycleStd",
                                 !.m_pfTickFuncCopy = "Tick_InstructionCycleStd"]
    /\ bus = [Console(0).bus EXCEPT !.ram = k.ram]
    /\ obs = [ObsInit EXCEPT !.start = k]
    /\ mapper = Console(0).mapper
    /\ phase = "phi2"

InitInstr == \E k \in InstrCases : InstrStart(k)

\* The host calls CCpu6502::TickPhi2(); the access made joins the trace.
TickPhi2Instr ==
    /\ phase = "phi2"
    /\ \E m1 \in {CCpu6502_TickPhi2(Machine)} :
          /\ cpu' = m1.cpu
          /\ bus' = m1.bus
          /\ mapper' = m1.mapper
          /\ obs' = [ObsBranch(ObsPhi2(obs, cpu, m1), cpu, m1) EXCEPT
                        !.trace = @ \o m1.bus.log]
    /\ phase' = "phi1"

NextInstr ==
    \/ TickBranch
    \/ TickPhi2Instr

SpecInstr == InitInstr /\ [][NextInstr]_vars

\* The byte the run began with at address a of the internal RAM.
StartByte(a) == Cell(obs.start.ram, a % LSN_INTERNAL_RAM, 0)

\* The addresses of the accesses made so far.
TraceAddrs == [i \in 1..Len(obs.trace) |-> obs.trace[i].addr]

\* The first instruction of the run, with opcode op, has just run its last
\* micro-step, named fn.
InstrDone(op, fn) ==
    /\ phase = "phi2"
    /\ obs.step = fn
    /\ obs.br.n = 1
    /\ cpu.m_ui16OpCode = op
    /\ cpu.m_ui8FuncIndex = 0

\* C21: when JMP (q) has run, its five accesses were reads at the opcode,
\* the two operand bytes, q, and the address after q in the page of q,
\* (q & 0xFF00) | ((q + 1) & 0x00FF); PC is the word made of the bytes at
\* these two addresses: with q = 0x01FF, 0x34 at 0x01FF and 0x12 at 0x0100,
\* PC is 0x1234 and 0x0200 was not read.
C21_IndirectJmp ==
    InstrDone(Op.JMP_IND, "Jmp_BeginInst") =>
       LET q    == StartByte(InstrAt + 1) + 256 * StartByte(InstrAt + 2)
           hiAt == (q \div 256) * 256 + ((q + 1) % 256)
       IN  /\ TraceAddrs = <<InstrAt, InstrAt + 1, InstrAt + 2, q, hiAt>>
           /\ \A i \in 1..Len(obs.trace) : obs.trace[i].read
           /\ cpu.PC = StartByte(q) + 256 * StartByte(hiAt)
           /\ (q = 511 /\ StartByte(511) = 52 /\ StartByte(256) = 18) =>
                 (cpu.PC = 4660 /\ \A i \in 1..Len(obs.trace) : obs.trace[i].addr # 512)

\* JMP ($01FF) at 0x00F0 with 0x34 at 0x01FF, 0x12 at 0x0100 and another
\* byte at 0x0200 has set PC to 0x1234.
C21_Witness ==
    /\ InstrDone(Op.JMP_IND, "Jmp_BeginInst")
    /\ StartByte(InstrAt + 1) = 255
    /\ StartByte(InstrAt + 2) = 1
    /\ StartByte(511) = 52
    /\ StartByte(256) = 18
    /\ StartByte(512) = 5
    /\ TraceAddrs = <<240, 241, 242, 511, 256>>
    /\ cpu.PC = 4660

\* The accesses that find the base address of the first instruction, and
\* the base address.
IndexedOperand ==
    IF cpu.m_ui16OpCode = Op.LDA_IND_Y
    THEN LET z == StartByte(InstrAt + 1)
         IN  [prefix |-> <<InstrAt, InstrAt + 1, z, (z + 1) % 256>>,
              base   |-> StartByte(z) + 256 * StartByte((z + 1) % 256),
              index  |-> obs.start.Y]
    ELSE [prefix |-> <<InstrAt, InstrAt + 1, InstrAt + 2>>,
          base   |-> StartByte(InstrAt + 1) + 256 * StartByte(InstrAt + 2),
          index  |-> IF cpu.m_ui16OpCode = Op.LDA_ABS_X THEN obs.start.X ELSE obs.start.Y]

\* C22: when LDA in absolute,X, absolute,Y or (indirect),Y mode with base
\* address b and index i has run, one access was made per cycle, all of them
\* reads: if (b & 0xFF) + i <= 0xFF, the accesses that find b and then one
\* at b + i; if not, one cycle more, with a read at
\* (b & 0xFF00) | ((b + i) & 0xFF) before the read at (b + i) mod 2^16.  A
\* is the byte at the address read last when that is in the internal RAM.
C22_IndexedRead ==
    (\E op \in {Op.LDA_ABS_X, Op.LDA_ABS_Y, Op.LDA_IND_Y} : InstrDone(op, "Lda_BeginInst")) =>
       LET o     == IndexedOperand
           real  == (o.base + o.index) % 65536
           dummy == (o.base \div 256) * 256 + ((o.base + o.index) % 256)
       IN  /\ cpu.m_ui64CycleCount = Len(obs.trace)
           /\ \A n \in 1..Len(obs.trace) : obs.trace[n].read
           /\ TraceAddrs = IF (o.base % 256) + o.index <= 255
                           THEN o.prefix \o <<real>>
                           ELSE o.prefix \o <<dummy, real>>
           /\ Region(real) = "ram" => cpu.A = StartByte(real)

\* LDA $01F0,X with X = 0x10 took five cycles: it read 0x0100 and then
\* 0x0200, whose byte is in A.
C22_Witness ==
    /\ InstrDone(Op.LDA_ABS_X, "Lda_BeginInst")
    /\ StartByte(InstrAt + 1) = 240
    /\ StartByte(InstrAt + 2) = 1
    /\ obs.start.X = 16
    /\ TraceAddrs = <<240, 241, 242, 256, 512>>
    /\ cpu.m_ui64CycleCount = 5
    /\ cpu.A = 66

\* LDA ($FF),Y with the base 0x0180 and Y = 1 took five cycles, with one
\* read at 0x0181.
C22_WitnessSamePage ==
    /\ InstrDone(Op.LDA_IND_Y, "Lda_BeginInst")
    /\ TraceAddrs = <<240, 241, 255, 0, 385>>
    /\ cpu.m_ui64CycleCount = 5
    /\ cpu.A = 66


---------------------------------------------------------------------------
(* ADC (specification SpecAdc): Adc() applied to every accumulator,        *)
(* operand and carry, and ADC #imm run as an instruction.                  *)

\* The status registers Adc() is applied to: I and U set, without and with
\* the carry; N V B D Z set, without and with the carry.
AdcStatus == {36, 37, 218, 219}

\* LDA #5, ADC #3 from A = 0 and P = 0x24; ADC #1 from A = 0x7F; ADC #$FF
\* from A = 1 with the carry set.
AdcCases ==
    { InstrCase((InstrAt :> Op.LDA_IMM) @@ (InstrAt + 1 :> 5)
                  @@ (InstrAt + 2 :> Op.ADC_IMM) @@ (InstrAt + 3 :> 3), 0, 0, 0, 36),
      InstrCase((InstrAt :> Op.ADC_IMM) @@ (InstrAt + 1 :> 1), 127, 0, 0, 36),
      InstrCase((InstrAt :> Op.ADC_IMM) @@ (InstrAt + 1 :> 255), 1, 0, 0, 37) }

\* Either an instruction is about to run, or Adc() is about to be applied.
InitAdc ==
    \/ \E k \in AdcCases : InstrStart(k)
    \/ /\ cpu = [Constructed EXCEPT !.S = 253, !.ui8Status = 36]
       /\ bus = Console(0).bus
       /\ mapper = Console(0).mapper
       /\ phase = "call"
       /\ obs = ObsInit

\* Adc( m_rRegs.ui8A, op ) with accumulator a and status st.
CallAdc ==
    /\ phase = "call"
    /\ \E a \in 0..255, op \in 0..255, st \in AdcStatus :
          /\ cpu' = Adc([cpu EXCEPT !.A = a, !.ui8Status = st], op)
          /\ obs' = [obs EXCEPT !.start = [A |-> a, M |-> op, P |-> st]]
    /\ phase' = "called"
    /\ UNCHANGED <<bus, mapper>>

\* Sbc( m_rRegs.ui8A, op ) with accumulator a and status st.
CallSbc ==
    /\ phase = "call"
    /\ \E a \in 0..255, op \in 0..255, st \in AdcStatus :
          /\ cpu' = Sbc([cpu EXCEPT !.A = a, !.ui8Status = st], op)
          /\ obs' = [obs EXCEPT !.start = [A |-> a, M |-> op, P |-> st]]
    /\ phase' = "calledSbc"
    /\ UNCHANGED <<bus, mapper>>

NextAdc ==
    \/ TickBranch
    \/ TickPhi2Instr
    \/ CallAdc
    \/ CallSbc

SpecAdc == InitAdc /\ [][NextAdc]_vars

\* What ADC makes of accumulator a, operand op and status st: the
\* accumulator and the status.
AdcResult(a, op, st) ==
    LET sum == a + op + (st % 2)
        res == sum % 256
        a7  == a \div 128
        m7  == op \div 128
        s7  == (sum \div 128) % 2
        v   == a7 = m7 /\ a7 # s7
        kept == st - BitAnd(st, LSN_SF_CARRY + LSN_SF_ZERO + LSN_SF_OVERFLOW + LSN_SF_NEGATIVE)
    IN  [A |-> res,
         P |-> kept + (IF sum > 255 THEN LSN_SF_CARRY ELSE 0)
                    + (IF res = 0 THEN LSN_SF_ZERO ELSE 0)
                    + (IF v THEN LSN_SF_OVERFLOW ELSE 0)
                    + (IF res >= 128 THEN LSN_SF_NEGATIVE ELSE 0)]

\* C23: ADC of operand M to accumulator A with carry C leaves
\* A = (A + M + C) mod 256, C = (A + M + C > 0xFF), V = bit 7 of
\* ~(A ^ M) & (A ^ sum), Z = (result is 0), N = bit 7 of the result, and
\* every other flag as it was.  LDA #5 then ADC #3 from A = 0 and P = 0x24
\* leaves A = 0x08, Z = N = C = V = 0 and PC four bytes on; ADC #1 with
\* A = 0x7F leaves A = 0x80 with V and N set, Z and C clear.
C23_Adc ==
    /\ phase = "called" =>
          /\ cpu.A = AdcResult(obs.start.A, obs.start.M, obs.start.P).A
          /\ cpu.ui8Status = AdcResult(obs.start.A, obs.start.M, obs.start.P).P
    /\ (phase = "called" /\ obs.start.A = 127 /\ obs.start.M = 1 /\ obs.start.P = 36) =>
          (cpu.A = 128 /\ cpu.ui8Status = 36 + LSN_SF_OVERFLOW + LSN_SF_NEGATIVE)
    /\ (phase = "phi2" /\ obs.step = "Adc_BeginInst" /\ cpu.m_ui8FuncIndex = 0) =>
          LET p  == obs.fetchPc
              in == IF obs.br.n = 1 THEN obs.start.A ELSE StartByte(InstrAt + 1)
              r  == AdcResult(in, StartByte(p + 1), obs.start.P)
          IN  /\ cpu.A = r.A
              /\ cpu.ui8Status = r.P
              /\ cpu.PC = p + 2
              /\ (obs.br.n = 2 /\ StartByte(InstrAt + 1) = 5 /\ StartByte(p + 1) = 3) =>
                    (cpu.A = 8 /\ cpu.ui8Status = 36 /\ cpu.PC = InstrAt + 4)

\* Adc() was applied to A = 0xFF, operand 0x01 and a set carry: A = 0x01,
\* C set, V clear.
C23_Witness ==
    /\ phase = "called"
    /\ obs.start.A = 255
    /\ obs.start.M = 1
    /\ obs.start.P = 37
    /\ cpu.A = 1
    /\ cpu.ui8Status = 37

\* LDA #5, ADC #3 has run: A = 0x08, P = 0x24, PC = 0x00F4.
C23_WitnessProgram ==
    /\ phase = "phi2"
    /\ obs.step = "Adc_BeginInst"
    /\ obs.br.n = 2
    /\ cpu.A = 8
    /\ cpu.ui8Status = 36
    /\ cpu.PC = 244

\* C24: when PLP has run right after PHP, the byte PHP wrote to the stack
\* is the status with B and U set, the flags C, Z, I, D, V and N are what
\* they were before the PHP and S is back where it was; after any PLP, B of
\* the status register is clear and U is set whatever the pulled byte has in
\* these bits, the other six flags being those of the pulled byte.
C24_PhpPlpRoundTrip ==
    (phase = "phi2" /\ obs.step = "Plp_BeginInst" /\ cpu.m_ui8FuncIndex = 0) =>
       LET flags  == 255 - LSN_SF_BREAK - LSN_SF_RESERVED
           pulled == obs.trace[Len(obs.trace)]
       IN  /\ pulled.read
           /\ pulled.addr = 256 + cpu.S
           /\ BitAnd(cpu.ui8Status, flags) = BitAnd(pulled.val, flags)
           /\ ~HasBit(cpu.ui8Status, LSN_SF_BREAK)
           /\ HasBit(cpu.ui8Status, LSN_SF_RESERVED)
           /\ (obs.br.n = 2 /\ StartByte(InstrAt) = Op.PHP) =>
                 /\ obs.trace[3] = [addr |-> 256 + 253, read |-> FALSE,
                                    val |-> BitOr(obs.start.P, LSN_SF_BREAK + LSN_SF_RESERVED)]
                 /\ pulled.addr = obs.trace[3].addr
                 /\ BitAnd(cpu.ui8Status, flags) = BitAnd(obs.start.P, flags)
                 /\ cpu.S = 253

\* PHP, PLP with P = 0xE7: PHP wrote 0xF7 and P is 0xE7 again.
C24_Witness ==
    /\ phase = "phi2"
    /\ obs.step = "Plp_BeginInst"
    /\ obs.br.n = 2
    /\ StartByte(InstrAt) = Op.PHP
    /\ obs.start.P = 231
    /\ obs.trace[3].val = 247
    /\ cpu.ui8Status = 231

\* PLP alone pulled 0x10: P is 0x20.
C24_WitnessPulled ==
    /\ phase = "phi2"
    /\ obs.step = "Plp_BeginInst"
    /\ obs.br.n = 1
    /\ obs.trace[Len(obs.trace)].val = 16
    /\ cpu.ui8Status = 32


---------------------------------------------------------------------------
(* The controller ports (specification SpecPorts): the program reads       *)
(* 0x4016 and 0x4017 and writes 0x4016 while the buttons change.           *)

\* The button snapshots PollPort( 0 ) returns.
PortButtons == {0, 165, 255}

\* The bytes written to 0x4016.
PortWrites == {0, 1, 6, 7}

\* The console with an input poller installed.
InitPorts ==
    /\ \E b \in PortButtons : cpu = [Console(0).cpu EXCEPT !.m_pipPoller = b]
    /\ bus = Console(0).bus
    /\ mapper = Console(0).mapper
    /\ phase = "bus"
    /\ obs = ObsInit

\* The buttons change: PollPort( 0 ) returns b from now on.
Press(b) ==
    /\ cpu.m_pipPoller # b
    /\ cpu' = [cpu EXCEPT !.m_pipPoller = b]
    /\ UNCHANGED <<bus, mapper, phase, obs>>

NextPorts ==
    \/ \E a \in {16406, 16407} : DoRead(a)
    \/ \E v \in PortWrites : DoWrite(16406, v)
    \/ \E b \in PortButtons : Press(b)

SpecPorts == InitPorts /\ [][NextPorts]_vars

\* C25: a read of 0x4016 or 0x4017 returns bit 7 of the shift register of
\* the port, which then shifts left by one, the other register staying; a
\* write to 0x4016 with bit 0 set loads the shift register with the button
\* snapshot, and a write with bit 0 clear leaves the shift registers as
\* they are.
C25_PortShiftAndStrobe ==
    [][ obs'.busOps = obs.busOps + 1 =>
          LET acc  == obs'.acc
              port == acc.addr - 16405
              was  == cpu.m_ui8InputsState
              is   == cpu'.m_ui8InputsState
          IN  IF acc.kind = "read"
              THEN /\ acc.ret = was[port] \div 128
                   /\ is[port] = (was[port] * 2) % 256
                   /\ is[3 - port] = was[3 - port]
              ELSE IF acc.val % 2 = 1
                   THEN is[1] = cpu.m_pipPoller /\ is[2] = was[2]
                   ELSE is = was ]_vars

---------------------------------------------------------------------------
(* Mapper 094 (specification SpecMapper): the program reads and writes     *)
(* 0x8000-0xFFFF of a cartridge with mapper 094.                           *)

\* The accesses a run of SpecMapper makes.
MaxMapperOps == 3

\* The PRG ROM sizes in bytes: 1, 1.5, 2, 3 and 8 banks of 16 KiB.
PrgSizes == {16384, 24576, 32768, 49152, 131072}

\* The addresses read and written.
PrgAddrs == {32768, 32769, 49151, 49152, 65535}

\* The bytes written.
BankWrites == {0, 3, 4, 28, 255}

\* CMapper094::InitWithRom with a PRG ROM of the given size.
InitWithRom(size) ==
    [ticks |-> 0, prg |-> [size |-> size, patch |-> <<>>],
     m_ui8PgmBank |-> 0, m_ui8Mask |-> 28, m_stFixedOffset |-> 0]

\* CMapper094::ApplyMap: the fixed offset; the handlers are ReadFunc and
\* WriteFunc of a bus whose cartridge is Mapper094.
ApplyMap(mp) ==
    [mp EXCEPT !.m_stFixedOffset =
        (IF mp.prg.size > 16384 THEN mp.prg.size ELSE 16384) - 16384]

\* The console with a mapper-094 cartridge loaded.
InitMapper ==
    /\ cpu = Console(0).cpu
    /\ bus = [ApplyMemoryMap EXCEPT !.cart = Mapper094, !.driven = {"ram", "prg"}]
    /\ \E size \in PrgSizes :
          /\ mapper = ApplyMap(InitWithRom(size))
          /\ obs = [ObsInit EXCEPT !.start = InitWithRom(size).prg]
    /\ phase = "bus"

\* The program reads a.
ReadPrg(a) ==
    /\ obs.busOps < MaxMapperOps
    /\ \E r \in {BusRead(Machine, a)} :
          /\ cpu' = r.m.cpu
          /\ bus' = r.m.bus
          /\ mapper' = r.m.mapper
          /\ obs' = [obs EXCEPT !.acc = [kind |-> "read", addr |-> a, val |-> r.val,
                                         ret |-> CallRead(Machine, a).ret,
                                         before |-> bus.openBus,
                                         mask |-> FloatMask(bus, a)],
                                !.busOps = @ + 1]
    /\ UNCHANGED phase

\* The program writes v to a.
WritePrg(a, v) ==
    /\ obs.busOps < MaxMapperOps
    /\ \E m1 \in {BusWrite(Machine, a, v)} :
          /\ cpu' = m1.cpu
          /\ bus' = m1.bus
          /\ mapper' = m1.mapper
          /\ obs' = [obs EXCEPT !.acc = [kind |-> "write", addr |-> a, val |-> v,
                                         ret |-> 0, before |-> bus.openBus,
                                         mask |-> FloatMask(bus, a)],
                                !.lastWrite = <<v>>,
                                !.busOps = @ + 1]
    /\ UNCHANGED phase

NextMapper ==
    \/ \E a \in PrgAddrs : ReadPrg(a)
    \/ \E a \in PrgAddrs, v \in BankWrites : WritePrg(a, v)

SpecMapper == InitMapper /\ [][NextMapper]_vars

\* The bank the writes made so far select in a ROM with n banks: bits 2 to
\* 4 of the byte written last, modulo n; bank 0 before any write.
SelectedBank(n) ==
    IF obs.lastWrite = <<>> THEN 0 ELSE ((obs.lastWrite[1] \div 4) % 8) % n

\* C26: with a PRG ROM of one or more 16-KiB banks, whatever was written to
\* 0x8000-0xFFFF: the PRG ROM is as it was loaded; the byte a read of
\* 0xC000-0xFFFF returns is the one at the same offset of the last 16 KiB
\* of the ROM; the byte a read of 0x8000-0xBFFF returns is the one at that
\* offset of the bank selected by the last write, modulo the number of
\* banks, and of bank 0 before any write.
C26_Mapper094Banks ==
    (bus.cart = Mapper094 /\ obs.start.size >= 16384) =>
       LET rom == obs.start
           a   == obs.acc.addr
       IN  /\ mapper.prg = rom
           /\ (obs.acc.kind = "read" /\ a >= 49152) =>
                 obs.acc.ret = PrgByte(rom, rom.size - 16384 + (a - 49152))
           /\ (obs.acc.kind = "read" /\ a >= 32768 /\ a < 49152) =>
                 obs.acc.ret = PrgByte(rom, SelectedBank(rom.size \div 16384) * 16384
                                            + (a - 32768))
           /\ obs.acc.kind = "read" => obs.acc.val = obs.acc.ret

\* With 8 banks, 0xFF was written and 0x8001 then read: the byte is the one
\* at offset 1 of bank 7.
C26_Witness ==
    /\ bus.cart = Mapper094
    /\ obs.start.size = 131072
    /\ obs.lastWrite = <<255>>
    /\ obs.acc.kind = "read"
    /\ obs.acc.addr = 32769
    /\ obs.acc.ret = PrgByte(obs.start, 7 * 16384 + 1)
    /\ obs.acc.ret = 4

\* With 3 banks, 0x1C was written and 0x8000 then read: bank 7 mod 3 = 1.
C26_WitnessModulo ==
    /\ bus.cart = Mapper094
    /\ obs.start.size = 49152
    /\ obs.lastWrite = <<28>>
    /\ obs.acc.kind = "read"
    /\ obs.acc.addr = 32768
    /\ obs.acc.ret = 37
---------------------------------------------------------------------------
(* The verification build: CCpu6502::RunJsonTest() runs one recorded test. *)
(* A test names the registers and RAM bytes to start from, the bus access  *)
(* expected in each cycle and the registers expected at the end.           *)

Regs(a, x, y, s, p, pc) == [A |-> a, X |-> x, Y |-> y, S |-> s, P |-> p, PC |-> pc]
Rd(a, v) == [addr |-> a, val |-> v, read |-> TRUE]
Wr(a, v) == [addr |-> a, val |-> v, read |-> FALSE]
JsonTest(ram, initial, cycles, final) ==
    [loaded |-> TRUE, ram |-> ram, initial |-> initial, cycles |-> cycles, final |-> final]

\* Tests whose expectations are what a 6502 does: one or two per opcode of
\* the table that is neither JAM nor a branch, then a branch not taken, one
\* taken within its page and one taken across a page.
PassingTests ==
    { JsonTest(240 :> 234 @@ 241 :> 7, Regs(1, 2, 3, 253, 36, 240),
               << Rd(240, 234), Rd(241, 7) >>, Regs(1, 2, 3, 253, 36, 241)),
      JsonTest(240 :> 169 @@ 241 :> 5, Regs(1, 2, 3, 253, 36, 240),
               << Rd(240, 169), Rd(241, 5) >>, Regs(5, 2, 3, 253, 36, 242)),
      JsonTest(240 :> 105 @@ 241 :> 3, Regs(5, 2, 3, 253, 36, 240),
               << Rd(240, 105), Rd(241, 3) >>, Regs(8, 2, 3, 253, 36, 242)),
      JsonTest(240 :> 88 @@ 241 :> 7, Regs(1, 2, 3, 253, 36, 240),
               << Rd(240, 88), Rd(241, 7) >>, Regs(1, 2, 3, 253, 32, 241)),
      JsonTest(240 :> 120 @@ 241 :> 7, Regs(1, 2, 3, 253, 32, 240),
               << Rd(240, 120), Rd(241, 7) >>, Regs(1, 2, 3, 253, 36, 241)),
      JsonTest(240 :> 76 @@ 241 :> 52 @@ 242 :> 2, Regs(1, 2, 3, 253, 36, 240),
               << Rd(240, 76), Rd(241, 52), Rd(242, 2) >>,
               Regs(1, 2, 3, 253, 36, 564)),
      JsonTest(240 :> 108 @@ 241 :> 255 @@ 242 :> 1 @@ 511 :> 52 @@ 256 :> 18,
               Regs(1, 2, 3, 253, 36, 240),
               << Rd(240, 108), Rd(241, 255), Rd(242, 1), Rd(511, 52), Rd(256, 18) >>,
               Regs(1, 2, 3, 253, 36, 4660)),
      JsonTest(240 :> 141 @@ 241 :> 0 @@ 242 :> 2, Regs(66, 2, 3, 253, 36, 240),
               << Rd(240, 141), Rd(241, 0), Rd(242, 2), Wr(512, 66) >>,
               Regs(66, 2, 3, 253, 36, 243)),
      JsonTest(240 :> 189 @@ 241 :> 240 @@ 242 :> 1 @@ 256 :> 153 @@ 512 :> 66,
               Regs(1, 16, 3, 253, 36, 240),
               << Rd(240, 189), Rd(241, 240), Rd(242, 1), Rd(256, 153), Rd(512, 66) >>,
               Regs(66, 16, 3, 253, 36, 243)),
      JsonTest(240 :> 185 @@ 241 :> 128 @@ 242 :> 1 @@ 385 :> 66,
               Regs(1, 2, 1, 253, 36, 240),
               << Rd(240, 185), Rd(241, 128), Rd(242, 1), Rd(385, 66) >>,
               Regs(66, 2, 1, 253, 36, 243)),
      JsonTest(240 :> 177 @@ 241 :> 32 @@ 32 :> 240 @@ 33 :> 1 @@ 256 :> 153
                   @@ 512 :> 66,
               Regs(1, 2, 16, 253, 36, 240),
               << Rd(240, 177), Rd(241, 32), Rd(32, 240), Rd(33, 1), Rd(256, 153),
                  Rd(512, 66) >>,
               Regs(66, 2, 16, 253, 36, 242)),
      JsonTest(240 :> 8 @@ 241 :> 7, Regs(1, 2, 3, 253, 36, 240),
               << Rd(240, 8), Rd(241, 7), Wr(509, 52) >>,
               Regs(1, 2, 3, 252, 36, 241)),
      JsonTest(240 :> 40 @@ 241 :> 7 @@ 509 :> 9 @@ 510 :> 195,
               Regs(1, 2, 3, 253, 36, 240),
               << Rd(240, 40), Rd(241, 7), Rd(509, 9), Rd(510, 195) >>,
               Regs(1, 2, 3, 254, 227, 241)),
      JsonTest(240 :> 64 @@ 241 :> 7 @@ 506 :> 9 @@ 507 :> 195 @@ 508 :> 52
                   @@ 509 :> 2,
               Regs(1, 2, 3, 250, 36, 240),
               << Rd(240, 64), Rd(241, 7), Rd(506, 9), Rd(507, 195), Rd(508, 52),
                  Rd(509, 2) >>,
               Regs(1, 2, 3, 253, 227, 564)),
      JsonTest(240 :> 0 @@ 241 :> 7, Regs(1, 2, 3, 253, 32, 240),
               << Rd(240, 0), Rd(241, 7), Wr(509, 0), Wr(508, 242), Wr(507, 48),
                  Rd(65534, 48), Rd(65535, 48) >>,
               Regs(1, 2, 3, 250, 36, 12336)),
      JsonTest(240 :> 240 @@ 241 :> 5 @@ 242 :> 7, Regs(1, 2, 3, 253, 36, 240),
               << Rd(240, 240), Rd(241, 5) >>, Regs(1, 2, 3, 253, 36, 242)),
      JsonTest(240 :> 208 @@ 241 :> 5 @@ 242 :> 7, Regs(1, 2, 3, 253, 36, 240),
               << Rd(240, 208), Rd(241, 5), Rd(242, 7) >>,
               Regs(1, 2, 3, 253, 36, 247)),
      JsonTest(240 :> 208 @@ 241 :> 32 @@ 242 :> 7 @@ 18 :> 9,
               Regs(1, 2, 3, 253, 36, 240),
               << Rd(240, 208), Rd(241, 32), Rd(242, 7), Rd(18, 9) >>,
               Regs(1, 2, 3, 253, 36, 274)) }

\* The tests made from t by changing one expected value: one register of
\* the final state, or the address, value or kind of one expected access.
WrongRegs(t) ==
    { [t EXCEPT !.final.A = (@ + 1) % 256], [t EXCEPT !.final.X = (@ + 1) % 256],
      [t EXCEPT !.final.Y = (@ + 1) % 256], [t EXCEPT !.final.S = (@ + 1) % 256],
      [t EXCEPT !.final.P = (@ + 1) % 256], [t EXCEPT !.final.PC = (@ + 1) % 65536] }
WrongCycles(t) ==
    UNION { { [t EXCEPT !.cycles[i].addr = (@ + 1) % 65536],
              [t EXCEPT !.cycles[i].val = (@ + 1) % 256],
              [t EXCEPT !.cycles[i].read = ~@] } : i \in 1..Len(t.cycles) }
FailingTests == UNION { WrongRegs(t) \cup WrongCycles(t) : t \in PassingTests }

\* A test GetTest() cannot load has a member missing or of the wrong type.
UnloadableTests == { [t EXCEPT !.loaded = FALSE] : t \in PassingTests }

JsonTests == PassingTests \cup FailingTests \cup UnloadableTests

\* RunJsonTest() up to its loop: the CPU reset to a known state, the cycle
\* count zeroed, the registers and the RAM bytes of the test put in place.
InitVerify ==
    \E t \in JsonTests :
       /\ cpu = [Constructed EXCEPT !.LSN_CPU_VERIFY = TRUE,
                                    !.A = t.initial.A, !.S = t.initial.S,
                                    !.X = t.initial.X, !.Y = t.initial.Y,
                                    !.ui8Status = t.initial.P, !.PC = t.initial.PC,
                                    !.m_ui64CycleCount = 0]
       /\ bus = [Console(0).bus EXCEPT !.ram = t.ram]
       /\ obs = [ObsInit EXCEPT !.test = t, !.I = Len(t.cycles)]
       /\ mapper = Console(0).mapper
       /\ phase = "phi1"

\* GetTest() fails and RunJsonTest() returns false at once.
RunJsonTest_NoTest ==
    /\ phase = "phi1"
    /\ obs.ret = "none"
    /\ ~obs.test.loaded
    /\ obs' = [obs EXCEPT !.ret = "false"]
    /\ phase' = "done"
    /\ UNCHANGED <<cpu, bus, mapper>>

\* The Tick() of one pass of the loop.
RunJsonTest_Tick ==
    /\ phase = "phi1"
    /\ obs.test.loaded
    /\ obs.I > 0
    /\ \E m1 \in {CCpu6502_Tick(Machine)} :
          /\ cpu' = m1.cpu
          /\ bus' = m1.bus
          /\ mapper' = m1.mapper
          /\ obs' = ObsPhi1(obs, cpu, m1)
    /\ phase' = "phi2"

\* RunJsonTest_TickPhi2 without the forcing of m_bDetectedNmi.
RunJsonTest_TickPhi2_NmiNotForced ==
    /\ phase = "phi2"
    /\ \E m1 \in {CCpu6502_TickPhi2(Machine)} :
          /\ cpu' = m1.cpu
          /\ bus' = m1.bus
          /\ mapper' = m1.mapper
          /\ obs' = [ObsPhi2(obs, cpu, m1) EXCEPT
                        !.trace = @ \o m1.bus.log,
                        !.I = @ - 1,
                        !.handled = Append(@, m1.cpu.m_bHandleNmi)]
    /\ phase' = "phi1"

\* The rest of the pass: m_bDetectedNmi is forced, then TickPhi2() runs; the
\* access made joins the log, and m_bHandleNmi is looked at.
RunJsonTest_TickPhi2 ==
    /\ phase = "phi2"
    /\ \E c0 \in {[cpu EXCEPT !.m_bDetectedNmi = TRUE]} :
       \E m1 \in {CCpu6502_TickPhi2([Machine EXCEPT !.cpu = c0])} :
          /\ cpu' = m1.cpu
          /\ bus' = m1.bus
          /\ mapper' = m1.mapper
          /\ obs' = [ObsPhi2(obs, c0, m1) EXCEPT
                        !.trace = @ \o m1.bus.log,
                        !.I = @ - 1,
                        !.handled = Append(@, m1.cpu.m_bHandleNmi)]
    /\ phase' = "phi1"

\* After the loop: one more Tick(), the comparisons, which only print, and
\* the return.
RunJsonTest_Return ==
    /\ phase = "phi1"
    /\ obs.test.loaded
    /\ obs.I = 0
    /\ \E m1 \in {CCpu6502_Tick(Machine)} :
          /\ cpu' = m1.cpu
          /\ bus' = m1.bus
          /\ mapper' = m1.mapper
          /\ obs' = [ObsPhi1(obs, cpu, m1) EXCEPT !.ret = "true"]
    /\ phase' = "done"

NextVerify ==
    \/ RunJsonTest_NoTest
    \/ RunJsonTest_Tick
    \/ RunJsonTest_TickPhi2
    \/ RunJsonTest_Return

SpecVerify == InitVerify /\ [][NextVerify]_vars

\* The registers the CPU ends with are those the test expects.
FinalRegsMatch ==
    Regs(cpu.A, cpu.X, cpu.Y, cpu.S, cpu.ui8Status, cpu.PC) = obs.test.final

\* The log holds one access per expected cycle, each as expected.
LogMatches == obs.trace = obs.test.cycles

\* The test succeeds.
TestSucceeds == obs.test.loaded /\ FinalRegsMatch /\ LogMatches

\* C27: when RunJsonTest() has returned, it has driven one Tick()/TickPhi2()
\* pair per expected cycle, and it has returned true when the test succeeded
\* and false when a final register, the number of logged accesses or a
\* logged access differs from what the test expects.
C27_RunJsonTestResult ==
    phase = "done" =>
        /\ obs.test.loaded => cpu.m_ui64CycleCount = Len(obs.test.cycles)
        /\ obs.ret = "true" <=> TestSucceeds

\* The opcode a test runs.
TestOpCode(t) == t.ram[t.initial.PC]

\* C30: for an opcode that is neither JAM nor a conditional branch, with an
\* NMI detected in every cycle, m_bHandleNmi is false after each TickPhi2()
\* of the instruction but the last and true after the last; after the
\* Tick() that follows the last cycle the micro-step index is 0.
C30_NmiHandledInLastCycle ==
    (obs.test.loaded /\ TestOpCode(obs.test) \notin BranchOps \cup {Op.JAM}) =>
        /\ \A i \in 1..Len(obs.handled) :
              obs.handled[i] <=> (i = Len(obs.test.cycles))
        /\ phase = "done" => cpu.m_ui8FuncIndex = 0

\* RunJsonTest() has run the seven cycles of a BRK and returned.
C30_Witness ==
    /\ phase = "done"
    /\ TestOpCode(obs.test) = Op.BRK
    /\ obs.handled = <<FALSE, FALSE, FALSE, FALSE, FALSE, FALSE, TRUE>>
    /\ cpu.m_ui8FuncIndex = 0

\* RunJsonTest() has run a load that needed its extra cycle and returned.
C30_WitnessLoad ==
    /\ phase = "done"
    /\ TestOpCode(obs.test) = Op.LDA_IND_Y
    /\ Len(obs.handled) = 6
    /\ obs.handled[6]

---------------------------------------------------------------------------
(* Interrupt lines during one instruction (specification SpecPoll): an     *)
(* instruction in RAM, with no cartridge, is followed from its opcode      *)
(* fetch while the devices raise the NMI and IRQ lines; what each cycle    *)
(* saw and did to m_bHandleNmi and m_bHandleIrq is recorded.               *)

MaxPollCycles == 5

\* Where the branches are, their offset bytes, and the status registers:
\* no flag, I, and N V Z C.
PollAt == {240, 253, 256}

PollOffsets == {1, 13, 32, 253}

PollStatus == {32, 36, 227}

\* Where a branch at p with offset byte d goes when taken.
BranchTarget(p, d) == (p + 2 + (IF d >= 128 THEN d - 256 ELSE d) + 65536) % 65536

\* The cycles a branch takes: two when not taken, three when taken within
\* the page of the next instruction, four when taken across a page.
BranchCycles(op, p, d, st) ==
    IF ~BranchTaken(op, st) THEN 2
    ELSE IF Hi(BranchTarget(p, d)) = Hi(U16(p + 2)) THEN 3 ELSE 4

\* A case: the bytes in RAM, where the instruction is, the status and X
\* registers, and the number of cycles the instruction takes on a 6502.
PollCase(ram, pc, st, x, n) == [ram |-> ram, PC |-> pc, P |-> st, X |-> x, cycles |-> n]

PollBranchCases ==
    { PollCase((p :> op) @@ (p + 1 :> d), p, st, 0, BranchCycles(op, p, d, st)) :
        p \in PollAt, d \in PollOffsets, st \in PollStatus, op \in BranchOps }

\* NOP, CLI, SEI, PHP, STA 0x0200, and LDA 0x01F0,X within a page and
\* across one.
PollOtherCases ==
    UNION { { PollCase(InstrAt :> Op.NOP, InstrAt, st, 0, 2),
              PollCase(InstrAt :> Op.CLI, InstrAt, st, 0, 2),
              PollCase(InstrAt :> Op.SEI, InstrAt, st, 0, 2),
              PollCase(InstrAt :> Op.PHP, InstrAt, st, 0, 3),
              PollCase((InstrAt :> Op.STA_ABS) @@ (InstrAt + 1 :> 0) @@ (InstrAt + 2 :> 2),
                       InstrAt, st, 0, 4),
              PollCase((InstrAt :> Op.LDA_ABS_X) @@ (InstrAt + 1 :> 240)
                         @@ (InstrAt + 2 :> 1), InstrAt, st, 1, 4),
              PollCase((InstrAt :> Op.LDA_ABS_X) @@ (InstrAt + 1 :> 240)
                         @@ (InstrAt + 2 :> 1), InstrAt, st, 16, 5) }
            : st \in PollStatus }

PollCases == PollBranchCases \cup PollOtherCases

\* The CPU between two instructions, the last of which was a NOP, both
\* lines released: the next micro-step is the opcode fetch of the case.
InitPoll ==
    /\ \E k \in PollCases :
          /\ cpu = [Constructed EXCEPT !.PC = k.PC, !.S = 253, !.ui8Status = k.P,
                                       !.X = k.X,
                                       !.m_ui16OpCode = Op.NOP, !.m_ui8FuncIndex = 0,
                                       !.m_pfTickFunc = "Tick_InstructionCycleStd",
                                       !.m_pfTickFuncCopy = "Tick_InstructionCycleStd"]
          /\ bus = [Console(0).bus EXCEPT !.ram = k.ram]
          /\ obs = [ObsInit EXCEPT !.start = k]
    /\ mapper = Console(0).mapper
    /\ phase = "phi2"

\* The host calls CCpu6502::Tick().
TickPoll ==
    /\ phase = "phi1"
    /\ cpu.m_ui64CycleCount < MaxPollCycles
    /\ cpu.m_ui16OpCode \in KnownOps
    /\ \E m1 \in {CCpu6502_Tick(Machine)} :
          /\ cpu' = m1.cpu
          /\ bus' = m1.bus
          /\ mapper' = m1.mapper
          /\ obs' = ObsPhi1(obs, cpu, m1)
    /\ phase' = "phi2"

\* What a cycle saw (the lines, the detected NMI, the IRQ flag of phi1, I)
\* and the two flags before and after its TickPhi2().
PollRecord(c, m1) ==
    [nmiLine |-> c.m_bNmiStatusLine, irqLine |-> c.m_bIrqStatusLine,
     nmi |-> c.m_bDetectedNmi, irq |-> c.m_bIrqStatusPhi1Flag,
     I |-> HasBit(c.ui8Status, LSN_SF_IRQ),
     hn0 |-> c.m_bHandleNmi, hi0 |-> c.m_bHandleIrq,
     hn |-> m1.cpu.m_bHandleNmi, hi |-> m1.cpu.m_bHandleIrq]

\* The host calls CCpu6502::TickPhi2().
TickPhi2Poll ==
    /\ phase = "phi2"
    /\ \E m1 \in {CCpu6502_TickPhi2(Machine)} :
          /\ cpu' = m1.cpu
          /\ bus' = m1.bus
          /\ mapper' = m1.mapper
          /\ obs' = [ObsBranch(ObsPhi2(obs, cpu, m1), cpu, m1) EXCEPT
                        !.polls = Append(@, PollRecord(cpu, m1))]
    /\ phase' = "phi1"

NextPoll ==
    \/ TickPoll
    \/ TickPhi2Poll
    \/ Nmi
    \/ Irq

SpecPoll == InitPoll /\ [][NextPoll]_vars

\* The opcode of the case, and whether it is a branch.
PollOp == obs.start.ram[obs.start.PC]
PollTaken == BranchTaken(PollOp, obs.start.P)

\* Cycle i of the run has been made and has set m_bHandleNmi, m_bHandleIrq,
\* or one of the two.
SetsNmi(i) == i <= Len(obs.polls) /\ obs.polls[i].hn /\ ~obs.polls[i].hn0
SetsIrq(i) == i <= Len(obs.polls) /\ obs.polls[i].hi /\ ~obs.polls[i].hi0
SetsEither(i) == SetsNmi(i) \/ SetsIrq(i)

\* An interrupt is pending from the phi2 of cycle i on: the NMI line is
\* high, or the IRQ line is asserted while I is 0.
PendingFrom(i) ==
    /\ i <= Len(obs.polls)
    /\ obs.polls[i].nmiLine \/ (obs.polls[i].irqLine /\ ~obs.polls[i].I)

\* C28: a branch that is not taken polls in its second cycle, one cycle
\* before the cycle in which a taken branch ends; a taken branch that
\* crosses a page does not poll: with an NMI or an unmasked IRQ pending from
\* its first cycle on, none of its four cycles sets m_bHandleNmi or
\* m_bHandleIrq.
C28_BranchPolling ==
    (PollOp \in BranchOps /\ PendingFrom(1)) =>
        /\ (~PollTaken /\ Len(obs.polls) >= 2) => SetsEither(2)
        /\ obs.start.cycles = 4 => \A i \in 1..4 : ~SetsEither(i)

\* C28 as the code has it: a branch not taken and a branch taken within its
\* page poll in their second cycle and in no other, so the third cycle of
\* the latter sets neither flag; a taken branch that crosses a page polls in
\* its fourth cycle only, which sets a flag when an NMI or an unmasked IRQ
\* is pending from the third cycle on.
C28_BranchPollingAmended ==
    PollOp \in BranchOps =>
        /\ ~SetsEither(1)
        /\ (obs.start.cycles \in {2, 3} /\ Len(obs.polls) >= 2 /\ PendingFrom(1)) =>
              SetsEither(2)
        /\ obs.start.cycles = 3 => ~SetsEither(3)
        /\ obs.start.cycles = 4 =>
              /\ \A i \in 1..3 : ~SetsEither(i)
              /\ (Len(obs.polls) >= 4 /\ PendingFrom(3)) => SetsEither(4)

\* An NMI raised in the first cycle of a taken branch that crosses a page
\* has set m_bHandleNmi in the fourth cycle of the branch.
C28_Witness ==
    /\ PollOp \in BranchOps
    /\ obs.start.cycles = 4
    /\ Len(obs.polls) = 4
    /\ obs.polls[1].nmiLine
    /\ SetsNmi(4)

\* An IRQ raised, I being 0, in the second cycle of a branch taken within
\* its page has gone through the third cycle without setting m_bHandleIrq.
C28_WitnessSamePage ==
    /\ PollOp \in BranchOps
    /\ obs.start.cycles = 3
    /\ Len(obs.polls) = 3
    /\ ~obs.polls[1].irqLine
    /\ obs.polls[2].irqLine
    /\ ~obs.polls[2].I
    /\ ~cpu.m_bHandleIrq

\* In every cycle made so far: the two flags are not set together;
\* m_bHandleIrq is set only when the cycle began with the IRQ flag of phi1
\* set, I = 0 and no NMI detected; m_bHandleNmi is set only when it began
\* with an NMI detected.
PollRule ==
    \A i \in 1..Len(obs.polls) :
        /\ ~(SetsNmi(i) /\ SetsIrq(i))
        /\ SetsIrq(i) => (obs.polls[i].irq /\ ~obs.polls[i].I /\ ~obs.polls[i].nmi)
        /\ SetsNmi(i) => obs.polls[i].nmi

\* Cycle i has been made and its phi2 polled: m_bHandleNmi is set when an
\* NMI was detected; if none was, m_bHandleIrq is set when the IRQ flag of
\* phi1 was set and I was 0.
PolledIn(i) ==
    /\ i >= 1
    /\ i <= Len(obs.polls)
    /\ obs.polls[i].hn <=> (obs.polls[i].hn0 \/ obs.polls[i].nmi)
    /\ obs.polls[i].hi <=>
          (obs.polls[i].hi0
             \/ (~obs.polls[i].nmi /\ obs.polls[i].irq /\ ~obs.polls[i].I))

C29_WitnessBoth ==
    \E i \in 1..Len(obs.polls) :
        /\ obs.polls[i].nmi
        /\ obs.polls[i].irq
        /\ ~obs.polls[i].I
        /\ SetsNmi(i)
        /\ ~obs.polls[i].hi

\* A poll made with the IRQ flag of phi1 set and I = 1 has set no flag.
C29_WitnessMasked ==
    /\ PollOp = Op.STA_ABS
    /\ Len(obs.polls) = 4
    /\ obs.polls[4].irq
    /\ obs.polls[4].I
    /\ ~obs.polls[4].nmi
    /\ ~obs.polls[4].hi
    /\ ~obs.polls[4].hn

---------------------------------------------------------------------------
(* Stores in the indexed modes (specification SpecInstr).                  *)

StoreOps == {Op.STA_ABS_X, Op.STA_ABS_Y, Op.STA_IND_Y}

\* The accesses that find the base address of the store, the base address
\* and the index.
StoreOperand ==
    IF cpu.m_ui16OpCode = Op.STA_IND_Y
    THEN LET z == StartByte(InstrAt + 1)
         IN  [prefix |-> <<InstrAt, InstrAt + 1, z, (z + 1) % 256>>,
              base   |-> StartByte(z) + 256 * StartByte((z + 1) % 256),
              index  |-> obs.start.Y]
    ELSE [prefix |-> <<InstrAt, InstrAt + 1, InstrAt + 2>>,
          base   |-> StartByte(InstrAt + 1) + 256 * StartByte(InstrAt + 2),
          index  |-> IF cpu.m_ui16OpCode = Op.STA_ABS_X THEN obs.start.X ELSE obs.start.Y]

\* C31: when STA in absolute,X, absolute,Y or (indirect),Y mode with base
\* address b and index i has run, the accesses that find b were followed by
\* a read at (b & 0xFF00) | ((b + i) & 0xFF), whether or not a page is
\* crossed, and then by the only write, of A at (b + i) mod 2^16; the number
\* of cycles is the same for every index.
C31_IndexedStore ==
    (\E op \in StoreOps : InstrDone(op, "Null")) =>
       LET o     == StoreOperand
           real  == (o.base + o.index) % 65536
           dummy == (o.base \div 256) * 256 + ((o.base + o.index) % 256)
           n     == Len(o.prefix) + 2
       IN  /\ cpu.m_ui64CycleCount = n
           /\ TraceAddrs = o.prefix \o <<dummy, real>>
           /\ \A k \in 1..(n - 1) : obs.trace[k].read
           /\ ~obs.trace[n].read
           /\ obs.trace[n].val = obs.start.A

\* STA $01F0,X with X = 0x10 took five cycles: it read 0x0100 and then
\* wrote 0x42 to 0x0200.
C31_Witness ==
    /\ InstrDone(Op.STA_ABS_X, "Null")
    /\ StartByte(InstrAt + 1) = 240
    /\ StartByte(InstrAt + 2) = 1
    /\ obs.start.X = 16
    /\ TraceAddrs = <<240, 241, 242, 256, 512>>
    /\ ~obs.trace[5].read
    /\ obs.trace[5].val = 66
    /\ Cell(bus.ram, 512, 0) = 66

\* STA $0180,Y with Y = 1 took five cycles as well, with a read at 0x0181
\* before the write there.
C31_WitnessSamePage ==
    /\ InstrDone(Op.STA_ABS_Y, "Null")
    /\ StartByte(InstrAt + 1) = 128
    /\ StartByte(InstrAt + 2) = 1
    /\ obs.start.Y = 1
    /\ TraceAddrs = <<240, 241, 242, 385, 385>>
    /\ obs.trace[4].read
    /\ ~obs.trace[5].read
    /\ cpu.m_ui64CycleCount = 5

---------------------------------------------------------------------------
(* Read-modify-write instructions (specification SpecInstr).               *)

\* What instruction op makes of the byte v with accumulator a and status
\* st: the byte written back, the accumulator and the status.
RmwExpect(op, v, a, st) ==
    LET cin   == st % 2
        shl   == (v * 2) % 256
        shr   == v \div 2
        rol   == shl + cin
        ror   == shr + 128 * cin
        inc   == (v + 1) % 256
        dec   == (v + 255) % 256
        Flags(cy, r) ==
            (((st \div 4) * 4) % 128) + (IF cy THEN 1 ELSE 0) + (IF r = 0 THEN 2 ELSE 0)
              + (IF r >= 128 THEN 128 ELSE 0)
        Keep(r) == Flags(cin = 1, r)
        Xor(p, q) == BitOr(p, q) - BitAnd(p, q)
        Arith(sum, x, y) ==
            [A |-> sum % 256,
             P |-> ((Flags(sum > 255, sum % 256) \div 128) * 128)
                     + (IF (x >= 128) = (y >= 128) /\ (x >= 128) # ((sum % 256) >= 128)
                        THEN 64 ELSE 0)
                     + (Flags(sum > 255, sum % 256) % 64)]
    IN  CASE op = Op.ASL_ABS -> [M |-> shl, A |-> a, P |-> Flags(v >= 128, shl)]
          [] op = Op.LSR_ABS -> [M |-> shr, A |-> a, P |-> Flags(v % 2 = 1, shr)]
          [] op = Op.ROL_ABS -> [M |-> rol, A |-> a, P |-> Flags(v >= 128, rol)]
          [] op = Op.ROR_ABS -> [M |-> ror, A |-> a, P |-> Flags(v % 2 = 1, ror)]
          [] op = Op.INC_ABS -> [M |-> inc, A |-> a, P |-> Keep(inc)]
          [] op = Op.DEC_ABS -> [M |-> dec, A |-> a, P |-> Keep(dec)]
          [] op = Op.SLO_ABS -> [M |-> shl, A |-> BitOr(a, shl),
                                 P |-> Flags(v >= 128, BitOr(a, shl))]
          [] op = Op.RLA_ABS -> [M |-> rol, A |-> BitAnd(a, rol),
                                 P |-> Flags(v >= 128, BitAnd(a, rol))]
          [] op = Op.SRE_ABS -> [M |-> shr, A |-> Xor(a, shr),
                                 P |-> Flags(v % 2 = 1, Xor(a, shr))]
          [] op = Op.RRA_ABS -> [M |-> ror] @@ Arith(a + ror + (v % 2), a, ror)
          [] op = Op.DCP_ABS -> [M |-> dec, A |-> a,
                                 P |-> Flags(a >= dec, (a + 256 - dec) % 256)]
          [] op = Op.ISB_ABS -> [M |-> inc] @@ Arith(a + (255 - inc) + cin, a, 255 - inc)

\* The address and the byte that the read-modify-write instruction of the
\* run works on.
RmwAddr == StartByte(InstrAt + 1) + 256 * StartByte(InstrAt + 2)

RmwByte == StartByte(RmwAddr)

\* C32: a read-modify-write instruction on address q reads q, writes the
\* byte it read back to q, and then writes the modified byte to q; the
\* flags and the accumulator are as they were until the first write was
\* made and are those of the operation on the byte read from then on.
C32_ReadModifyWrite ==
    /\ (cpu.m_ui16OpCode \in RmwOps /\ Len(obs.trace) = 5 /\ phase = "phi1") =>
          /\ TraceAddrs = <<InstrAt, InstrAt + 1, InstrAt + 2, RmwAddr, RmwAddr>>
          /\ obs.trace[4] = [addr |-> RmwAddr, val |-> RmwByte, read |-> TRUE]
          /\ obs.trace[5] = [addr |-> RmwAddr, val |-> RmwByte, read |-> FALSE]
          /\ cpu.ui8Status = obs.start.P
          /\ cpu.A = obs.start.A
    /\ (\E op \in RmwOps : InstrDone(op, "Null")) =>
          LET e == RmwExpect(cpu.m_ui16OpCode, RmwByte, obs.start.A, obs.start.P)
          IN  /\ cpu.m_ui64CycleCount = 6
              /\ TraceAddrs = <<InstrAt, InstrAt + 1, InstrAt + 2, RmwAddr, RmwAddr, RmwAddr>>
              /\ obs.trace[4] = [addr |-> RmwAddr, val |-> RmwByte, read |-> TRUE]
              /\ obs.trace[5] = [addr |-> RmwAddr, val |-> RmwByte, read |-> FALSE]
              /\ obs.trace[6] = [addr |-> RmwAddr, val |-> e.M, read |-> FALSE]
              /\ cpu.ui8Status = e.P
              /\ cpu.A = e.A
              /\ Cell(bus.ram, RmwAddr, 0) = e.M

\* ASL $0180 on the byte 0x80 with the carry clear: 0x80 was read, 0x80 was
\* written, 0x00 was written, and C and Z are set.
C32_Witness ==
    /\ InstrDone(Op.ASL_ABS, "Null")
    /\ RmwAddr = 384
    /\ obs.start.P = 36
    /\ obs.trace[4] = [addr |-> 384, val |-> 128, read |-> TRUE]
    /\ obs.trace[5] = [addr |-> 384, val |-> 128, read |-> FALSE]
    /\ obs.trace[6] = [addr |-> 384, val |-> 0, read |-> FALSE]
    /\ cpu.ui8Status = 39

\* ISB $07FF on the byte 0xFF with A = 0x81 and the carry set: the byte
\* becomes 0 and A stays 0x81.
C32_WitnessIsb ==
    /\ InstrDone(Op.ISB_ABS, "Null")
    /\ RmwAddr = 2047
    /\ obs.start.P = 37
    /\ obs.start.A = 129
    /\ obs.trace[5] = [addr |-> 2047, val |-> 255, read |-> FALSE]
    /\ obs.trace[6] = [addr |-> 2047, val |-> 0, read |-> FALSE]
    /\ cpu.A = 129
    /\ cpu.ui8Status = 165

\* The dummy write of DEC $0180 has been made and the flags are untouched.
C32_WitnessBetween ==
    /\ cpu.m_ui16OpCode = Op.DEC_ABS
    /\ Len(obs.trace) = 5
    /\ phase = "phi1"
    /\ RmwByte = 0
    /\ ~obs.trace[5].read
    /\ cpu.ui8Status = obs.start.P

---------------------------------------------------------------------------
(* SBC (specification SpecAdc).                                            *)

\* The status st with the D flag the other way.
FlipD(st) == IF HasBit(st, LSN_SF_DECIMAL) THEN st - LSN_SF_DECIMAL ELSE st + LSN_SF_DECIMAL

\* C, Z, V and N of the status st.
ArithFlags(st) == BitAnd(st, LSN_SF_CARRY + LSN_SF_ZERO + LSN_SF_OVERFLOW + LSN_SF_NEGATIVE)

\* C33: Sbc() of accumulator A, operand M and status P leaves the
\* accumulator and the status that Adc() of A, M ^ 0xFF and P leaves, and
\* the accumulator and C, V, Z, N that both leave when P has the D flag the
\* other way.
C33_SbcIsAdcOfComplement ==
    phase = "calledSbc" =>
       LET in(st) == [cpu EXCEPT !.A = obs.start.A, !.ui8Status = st]
           m      == obs.start.M
           adc    == Adc(in(obs.start.P), 255 - m)
           adcD   == Adc(in(FlipD(obs.start.P)), 255 - m)
           sbcD   == Sbc(in(FlipD(obs.start.P)), m)
       IN  /\ cpu.A = adc.A
           /\ cpu.ui8Status = adc.ui8Status
           /\ cpu.A = sbcD.A /\ cpu.A = adcD.A
           /\ ArithFlags(cpu.ui8Status) = ArithFlags(sbcD.ui8Status)
           /\ ArithFlags(cpu.ui8Status) = ArithFlags(adcD.ui8Status)
           /\ HasBit(cpu.ui8Status, LSN_SF_DECIMAL) = HasBit(obs.start.P, LSN_SF_DECIMAL)

\* Sbc() of A = 0x50 and M = 0xF0 and P = 0xDB (the carry and D
\* set): A = 0x60, the carry is clear (a borrow), V, Z and N are clear.
C33_Witness ==
    /\ phase = "calledSbc"
    /\ obs.start = [A |-> 80, M |-> 240, P |-> 219]
    /\ cpu.A = 96
    /\ cpu.ui8Status = 24

\* Sbc() of A = 0x50 and M = 0xB0 with the carry set overflows: A = 0xA0
\* with V and N set.
C33_WitnessOverflow ==
    /\ phase = "calledSbc"
    /\ obs.start = [A |-> 80, M |-> 176, P |-> 37]
    /\ cpu.A = 160
    /\ cpu.ui8Status = 36 + LSN_SF_OVERFLOW + LSN_SF_NEGATIVE

---------------------------------------------------------------------------
(* ANE and LXA (specification SpecUnstable): the two instructions in       *)
(* immediate mode, in the build with LSN_CPU_VERIFY and in the one without.*)

UnstableBytes == {0, 1, 16, 17, 85, 170, 238, 255}

\* ANE #m and LXA #m with accumulator a and index x; the status has N and Z
\* clear, or both set.
UnstableCases ==
    { InstrCase((InstrAt :> k[1]) @@ (InstrAt + 1 :> k[2]), k[3], k[4], 3, k[5])
        : k \in {Op.ANE_IMM, Op.LXA_IMM} \X UnstableBytes \X UnstableBytes
                  \X UnstableBytes \X {36, 166} }

InitUnstable ==
    \E k \in UnstableCases, v \in BOOLEAN :
       /\ cpu = [Constructed EXCEPT !.PC = InstrAt, !.S = 253, !.ui8Status = k.P,
                                    !.A = k.A, !.X = k.X, !.Y = k.Y,
                                    !.m_ui16OpCode = Op.NOP, !.m_ui8FuncIndex = 0,
                                    !.m_pfTickFunc = "Tick_InstructionCycleStd",
                                    !.m_pfTickFuncCopy = "Tick_InstructionCycleStd",
                                    !.LSN_CPU_VERIFY = v]
       /\ bus = [Console(0).bus EXCEPT !.ram = k.ram]
       /\ obs = [ObsInit EXCEPT !.start = k]
       /\ mapper = Console(0).mapper
       /\ phase = "phi2"

SpecUnstable == InitUnstable /\ [][NextInstr]_vars

\* The constant of the claimed model: 0xEE in the LSN_CPU_VERIFY build and
\* 0xFF in the other.
MagicConst == IF cpu.LSN_CPU_VERIFY THEN 238 ELSE 255

\* N and Z of the status are those of the byte v.
NZOf(v) ==
    /\ HasBit(cpu.ui8Status, LSN_SF_NEGATIVE) = (v >= 128)
    /\ HasBit(cpu.ui8Status, LSN_SF_ZERO) = (v = 0)

C34_WitnessAne ==
    /\ InstrDone(Op.ANE_IMM, "Ane_IncPc_BeginInst")
    /\ ~cpu.LSN_CPU_VERIFY
    /\ obs.start.A = 0 /\ obs.start.X = 255
    /\ StartByte(InstrAt + 1) = 255
    /\ cpu.A = 238

\* LXA #$11 with A = 1 in the LSN_CPU_VERIFY build: A = X = (1 | 0xEE) & 0x11
\* = 0x01.
C34_WitnessVerify ==
    /\ InstrDone(Op.LXA_IMM, "Lxa_IncPc_BeginInst")
    /\ cpu.LSN_CPU_VERIFY
    /\ obs.start.A = 1 /\ obs.start.X = 0
    /\ StartByte(InstrAt + 1) = 17
    /\ cpu.A = 1 /\ cpu.X = 1

---------------------------------------------------------------------------
(* SHA, SHS, SHX and SHY (specification SpecInstr).                        *)

\* The base address and the index of the unstable store of the run.
ShOperand ==
    IF cpu.m_ui16OpCode = Op.SHA_IND_Y
    THEN LET z == StartByte(InstrAt + 1)
         IN  [base  |-> StartByte(z) + 256 * StartByte((z + 1) % 256),
              index |-> obs.start.Y,
              n     |-> 6]
    ELSE [base  |-> StartByte(InstrAt + 1) + 256 * StartByte(InstrAt + 2),
          index |-> IF cpu.m_ui16OpCode = Op.SHY_ABS_X THEN obs.start.X ELSE obs.start.Y,
          n     |-> 5]

\* The register the unstable store of the run stores.
ShReg ==
    CASE cpu.m_ui16OpCode \in {Op.SHA_ABS_Y, Op.SHA_IND_Y, Op.SHS_ABS_Y} ->
             BitAnd(obs.start.A, obs.start.X)
      [] cpu.m_ui16OpCode = Op.SHX_ABS_Y -> obs.start.X
      [] OTHER -> obs.start.Y

\* C35: SHA, SHS, SHX and SHY with base address b and index i make one
\* write, of reg & (high byte of b + 1): to (b + i) mod 2^16 when b and
\* b + i are in the same page, and otherwise to the address with the low
\* byte of b + i and the written value as high byte; SHS leaves S = A & X,
\* the others leave S as it was.
C35_UnstableStores ==
    (\E op \in ShOps : InstrDone(op, "Null")) =>
       LET o    == ShOperand
           v    == BitAnd((Hi(o.base) + 1) % 256, ShReg)
           eff  == (o.base + o.index) % 65536
           w    == obs.trace[o.n]
       IN  /\ Len(obs.trace) = o.n
           /\ \A k \in 1..(o.n - 1) : obs.trace[k].read
           /\ ~w.read
           /\ w.val = v
           /\ w.addr = (IF Hi(eff) = Hi(o.base) THEN eff ELSE Word(Lo(eff), v))
           /\ cpu.S = (IF cpu.m_ui16OpCode = Op.SHS_ABS_Y
                       THEN BitAnd(obs.start.A, obs.start.X) ELSE 253)

\* SHX $01F0,Y with X = 6 and Y = 0x10: the page is crossed, 6 & 2 = 2 is
\* written to 0x0200.
C35_Witness ==
    /\ InstrDone(Op.SHX_ABS_Y, "Null")
    /\ ShOperand.base = 496
    /\ obs.start.X = 6 /\ obs.start.Y = 16
    /\ obs.trace[5] = [addr |-> 512, val |-> 2, read |-> FALSE]

\* SHA $02FF,Y with A = 0xFF, X = 6 and Y = 1: the page is crossed, 6 & 3 = 2
\* is written to 0x0200 and not to 0x0300.
C35_WitnessCorrupted ==
    /\ InstrDone(Op.SHA_ABS_Y, "Null")
    /\ ShOperand.base = 767
    /\ obs.start.A = 255 /\ obs.start.X = 6 /\ obs.start.Y = 1
    /\ obs.trace[5] = [addr |-> 512, val |-> 2, read |-> FALSE]

\* SHS $0180,Y with A = 0xFF, X = 6 and Y = 1: no page is crossed, 6 & 2 = 2
\* is written to 0x0181 and S is 6.
C35_WitnessShs ==
    /\ InstrDone(Op.SHS_ABS_Y, "Null")
    /\ ShOperand.base = 384
    /\ obs.start.A = 255 /\ obs.start.X = 6 /\ obs.start.Y = 1
    /\ obs.trace[5] = [addr |-> 385, val |-> 2, read |-> FALSE]
    /\ cpu.S = 6

---------------------------------------------------------------------------
(* The pulls into m_ui16Target (specification SpecPull): a word lies on    *)
(* the stack, high byte pushed first, and the pull micro-steps are run.    *)

PullWords == {0, 255, 4660, 32769, 65280, 65535}

PullTargets == {0, 43981}

PullS == {250, 253, 254}

\* The word w is on the stack above S = sp, and m_ui16Target holds t; the
\* low pull comes next, or the high pull alone.
InitPull ==
    \E w \in PullWords, t \in PullTargets, sp \in PullS, first \in {"low", "high"} :
       /\ cpu = [Constructed EXCEPT !.S = sp, !.ui8Status = 36, !.m_ui16Target = t,
                                    !.m_ui16OpCode = Op.NOP,
                                    !.m_pfTickFunc = "Tick_InstructionCycleStd",
                                    !.m_pfTickFuncCopy = "Tick_InstructionCycleStd"]
       /\ bus = [Console(0).bus EXCEPT
                    !.ram = (256 + U8(sp + 1) :> Lo(w)) @@ (256 + U8(sp + 2) :> Hi(w))]
       /\ mapper = Console(0).mapper
       /\ obs = [ObsInit EXCEPT !.start = [word |-> w, target |-> t, S |-> sp, first |-> first]]
       /\ phase = first

\* Pull_To_Target_L_Phi2<1>() runs.
PullLow ==
    /\ phase = "low"
    /\ \E m1 \in {Pull_To_Target_L_Phi2(Machine, 1)} :
          /\ cpu' = m1.cpu
          /\ bus' = m1.bus
          /\ obs' = [obs EXCEPT !.trace = @ \o m1.bus.log]
    /\ phase' = "high"
    /\ UNCHANGED mapper

\* Pull_To_Target_H_Phi2<off, e>() runs: with offset 2 after the low pull,
\* with offset 1 when it is the only pull.
PullHigh ==
    /\ phase = "high"
    /\ \E e \in BOOLEAN :
       \E m1 \in {Pull_To_Target_H_Phi2(Machine, IF obs.start.first = "low" THEN 2 ELSE 1, e)} :
          /\ cpu' = m1.cpu
          /\ bus' = m1.bus
          /\ obs' = [obs EXCEPT !.trace = @ \o m1.bus.log]
    /\ phase' = "done"
    /\ UNCHANGED mapper

NextPull == PullLow \/ PullHigh

SpecPull == InitPull /\ [][NextPull]_vars

\* The byte the last pull read.
PulledByte == obs.trace[Len(obs.trace)].val

\* C36: Pull_To_Target_L_Phi2 leaves the byte pulled in the low byte of
\* m_ui16Target and the high byte as it was; Pull_To_Target_H_Phi2 leaves
\* the byte pulled in the high byte and the low byte as it was; after a low
\* pull and a high pull m_ui16Target is the word that was pushed high byte
\* first.
C36_PullTarget ==
    /\ (phase = "high" /\ obs.start.first = "low") =>
          cpu.m_ui16Target = Word(PulledByte, Hi(obs.start.target))
    /\ (phase = "done" /\ obs.start.first = "high") =>
          cpu.m_ui16Target = Word(Lo(obs.start.target), PulledByte)
    /\ (phase = "done" /\ obs.start.first = "low") =>
          cpu.m_ui16Target = obs.start.word

\* What the two micro-steps do: each leaves the byte it pulled in the low
\* byte of m_ui16Target and the high byte as it was before the first pull.
PullTargetLowOnly ==
    (phase = "done" \/ (phase = "high" /\ obs.start.first = "low")) =>
       /\ cpu.m_ui16Target = Word(PulledByte, Hi(obs.start.target))
       /\ obs.trace[1].addr = 256 + U8(obs.start.S + 1)
       /\ (Len(obs.trace) = 2 => obs.trace[2].addr = 256 + U8(obs.start.S + 2))

---------------------------------------------------------------------------
(* CLI and SEI with the IRQ line asserted (specification SpecCliSei): the  *)
(* instruction, a two-cycle instruction after it, and NOPs.                *)

\* The instruction that follows: its bytes.
CliSeiSeconds ==
    {<<Op.NOP>>, <<Op.LDA_IMM, 5>>, <<Op.ADC_IMM, 3>>, <<Op.CLI>>, <<Op.SEI>>}

\* I clear, I set, and both with other flags set.
CliSeiStatus == {32, 36, 163, 231}

CliSeiCases ==
    { [ram |-> (InstrAt :> k[1]) @@ [a \in (InstrAt + 1)..(InstrAt + Len(k[2])) |->
                                        k[2][a - InstrAt]]
                  @@ [a \in (InstrAt + 1 + Len(k[2]))..(InstrAt + 3) |-> Op.NOP],
       PC |-> InstrAt, P |-> k[3], X |-> 0, cycles |-> 2, second |-> k[2], irq |-> k[4]]
        : k \in {Op.CLI, Op.SEI} \X CliSeiSeconds \X CliSeiStatus \X BOOLEAN }

\* The CPU between two instructions, the last of which was a NOP; a device
\* has asserted the IRQ line, or none has.
InitCliSei ==
    /\ \E k \in CliSeiCases :
          /\ cpu = [Constructed EXCEPT !.PC = k.PC, !.S = 253, !.ui8Status = k.P,
                                       !.m_ui16OpCode = Op.NOP, !.m_ui8FuncIndex = 0,
                                       !.m_pfTickFunc = "Tick_InstructionCycleStd",
                                       !.m_pfTickFuncCopy = "Tick_InstructionCycleStd",
                                       !.m_bIrqStatusLine = k.irq]
          /\ bus = [Console(0).bus EXCEPT !.ram = k.ram]
          /\ obs = [ObsInit EXCEPT !.start = k]
    /\ mapper = Console(0).mapper
    /\ phase = "phi2"

NextCliSei ==
    \/ TickPoll
    \/ TickPhi2Poll

SpecCliSei == InitCliSei /\ [][NextCliSei]_vars

\* Cycle i has been made and was the opcode fetch that enters the IRQ
\* sequence: m_bHandleIrq was set when it began.
EntersIrqAt(i) == i <= Len(obs.polls) /\ obs.polls[i].hi0

\* Cycle i has just been made.
JustMade(i) == phase = "phi1" /\ Len(obs.polls) = i

\* C37: with the IRQ line held asserted, (a) CLI run with I = 1 is followed
\* by an ordinary opcode fetch in cycle 3, which sees I = 0 already, the
\* two-cycle instruction fetched runs, and the fetch of cycle 5 enters the
\* IRQ sequence with PC at the instruction after it; (b) SEI run with I = 0
\* is followed by the fetch of cycle 3 entering the IRQ sequence with PC at
\* the instruction after SEI, although I is 1 by then.
C37_CliSeiDelay ==
    (obs.start.irq /\ cpu.m_bIrqStatusLine) =>
       /\ (PollOp = Op.CLI /\ HasBit(obs.start.P, LSN_SF_IRQ)) =>
             /\ ~EntersIrqAt(1) /\ ~EntersIrqAt(2) /\ ~EntersIrqAt(3) /\ ~EntersIrqAt(4)
             /\ Len(obs.polls) >= 2 => obs.polls[2].I /\ obs.polls[2].irq
             /\ Len(obs.polls) >= 3 => ~obs.polls[3].I
             /\ JustMade(3) =>
                   /\ cpu.m_ui16OpCode = obs.start.second[1]
                   /\ obs.br.pc = InstrAt + 1
             /\ JustMade(5) =>
                   /\ EntersIrqAt(5)
                   /\ cpu.m_ui16OpCode = Op.BRK
                   /\ cpu.PC = InstrAt + 1 + Len(obs.start.second)
                   /\ obs.start.second = <<Op.LDA_IMM, 5>> => cpu.A = 5
                   /\ obs.start.second = <<Op.ADC_IMM, 3>> => cpu.A = 3 + (obs.start.P % 2)
                   /\ HasBit(cpu.ui8Status, LSN_SF_IRQ) = (obs.start.second = <<Op.SEI>>)
       /\ (PollOp = Op.SEI /\ ~HasBit(obs.start.P, LSN_SF_IRQ)) =>
             /\ ~EntersIrqAt(1) /\ ~EntersIrqAt(2)
             /\ Len(obs.polls) >= 2 => ~obs.polls[2].I /\ obs.polls[2].irq /\ obs.polls[2].hi
             /\ JustMade(3) =>
                   /\ EntersIrqAt(3)
                   /\ obs.polls[3].I
                   /\ cpu.m_ui16OpCode = Op.BRK
                   /\ cpu.PC = InstrAt + 1

\* CLI, LDA #5 with I = 1 and the line asserted: the IRQ sequence is
\* entered in cycle 5, after LDA has loaded 5.
C37_Witness ==
    /\ JustMade(5)
    /\ PollOp = Op.CLI
    /\ obs.start.P = 36
    /\ obs.start.irq
    /\ obs.start.second = <<Op.LDA_IMM, 5>>
    /\ EntersIrqAt(5) /\ ~EntersIrqAt(3)
    /\ cpu.A = 5
    /\ cpu.PC = InstrAt + 3

\* SEI with I = 0 and the line asserted: the IRQ sequence is entered in
\* cycle 3 with I set.
C37_WitnessSei ==
    /\ JustMade(3)
    /\ PollOp = Op.SEI
    /\ obs.start.P = 32
    /\ obs.start.irq
    /\ EntersIrqAt(3)
    /\ HasBit(cpu.ui8Status, LSN_SF_IRQ)
    /\ cpu.PC = InstrAt + 1

---------------------------------------------------------------------------
(* An NMI edge latched while a sequence runs (specification Spec).         *)

\* The vector selection of the running sequence found an NMI detected: the
\* sequence was started by a BRK opcode or by an IRQ, or by the reset.
Hijacked ==
    /\ obs.seqKind \in {"BRK", "IRQ"}
    /\ obs.sel.made /\ obs.sel.nmi /\ ~obs.sel.reset
    /\ obs.serve = "NMI"
    /\ cpu.m_ui16OpCode = Op.BRK

\* The step about to be taken is the vector selection of a sequence that a
\* BRK opcode or an IRQ started, with an NMI detected.
SelectsHijack ==
    /\ phase = "phi1"
    /\ cpu.m_pfTickFunc = "Tick_InstructionCycleStd"
    /\ StepName(cpu) = "SelectBrkVectors"
    /\ obs.seqKind \in {"BRK", "IRQ"}
    /\ cpu.m_bDetectedNmi
    /\ ~cpu.m_bIsReset

\* C38: the vector selection of a sequence started by a BRK opcode or an
\* IRQ, made with an NMI detected, chooses 0xFFFA, has the status pushed
\* without B, and leaves m_bDetectedNmi, m_bHandleNmi, m_bHandleIrq and the
\* NMI line clear; the status byte the sequence pushes has bit 4 clear, PC
\* ends as the word at 0xFFFA, and the NMI sequences served never outnumber
\* the rising edges of the NMI line that TickPhi2() sampled.
C38_NmiHijack ==
    [][ /\ (SelectsHijack /\ phase' = "phi2") =>
              /\ cpu'.m_vBrkVector = LSN_V_NMI
              /\ ~cpu'.m_bPushB
              /\ ~cpu'.m_bDetectedNmi /\ ~cpu'.m_bHandleNmi /\ ~cpu'.m_bHandleIrq
              /\ ~cpu'.m_bNmiStatusLine
        /\ (Hijacked /\ obs.step = "Push_S_Phi2")' =>
              (obs.push.written /\ obs.push.cause = "SEQ" /\ ~HasBit(obs.push.val, 16))'
        /\ (Hijacked /\ obs.step = "Brk_BeginInst")' =>
              (cpu.PC = Rom(bus.cart, 65530) + 256 * Rom(bus.cart, 65531))'
        /\ (obs.taken.NMI <= obs.nmiEdges)'
      ]_vars

\* A BRK opcode was fetched, an NMI edge was latched before its vector
\* selection, and the sequence has ended: the status was pushed with bit 4
\* clear, PC is the NMI handler, nothing is pending and one NMI was served.
C38_Witness ==
    /\ Hijacked
    /\ obs.seqKind = "BRK"
    /\ obs.step = "Brk_BeginInst"
    /\ phase = "phi2"
    /\ obs.push.written /\ ~HasBit(obs.push.val, 16)
    /\ cpu.m_vBrkVector = 65530
    /\ cpu.PC = 36880
    /\ ~cpu.m_bDetectedNmi /\ ~cpu.m_bHandleNmi /\ ~cpu.m_bNmiStatusLine
    /\ obs.taken.NMI = 1
    /\ obs.nmiEdges = 1

\* The same for a sequence that an IRQ started.
C38_WitnessIrq ==
    /\ Hijacked
    /\ obs.seqKind = "IRQ"
    /\ obs.step = "Push_S_Phi2"
    /\ phase = "phi1"
    /\ obs.push.written /\ ~HasBit(obs.push.val, 16)
    /\ cpu.m_vBrkVector = 65530
    /\ obs.taken.NMI = 1

\* The step about to be taken is the vector selection of the reset
\* sequence, with an NMI detected.
SelectsResetWithNmi ==
    /\ phase = "phi1"
    /\ cpu.m_pfTickFunc = "Tick_InstructionCycleStd"
    /\ StepName(cpu) = "SelectBrkVectors"
    /\ cpu.m_bIsReset
    /\ cpu.m_bDetectedNmi

\* C39: the vector selection made with the reset pending and an NMI
\* detected chooses 0xFFFC and leaves m_bDetectedNmi, m_bHandleNmi and
\* m_bHandleIrq clear; the sequence ends with PC the word at 0xFFFC; and the
\* NMI sequences served together with the edges lost in this way never
\* outnumber the rising edges of the NMI line that TickPhi2() sampled, so
\* the lost edge starts no NMI sequence.
C39_NmiLostInReset ==
    [][ /\ (SelectsResetWithNmi /\ phase' = "phi2") =>
              /\ cpu'.m_vBrkVector = LSN_V_RESET
              /\ ~cpu'.m_bIsReset
              /\ ~cpu'.m_bDetectedNmi /\ ~cpu'.m_bHandleNmi /\ ~cpu'.m_bHandleIrq
              /\ obs'.taken.LOST = obs.taken.LOST + 1
              /\ obs'.taken.NMI = obs.taken.NMI
        /\ (obs.seqKind = "RESET" /\ obs.step = "Brk_BeginInst")' =>
              (cpu.PC = Rom(bus.cart, 65532) + 256 * Rom(bus.cart, 65533))'
        /\ (obs.taken.NMI + obs.taken.LOST <= obs.nmiEdges)'
      ]_vars

\* An NMI edge was latched before the vector selection of the reset; the
\* reset sequence has ended and the first instruction of the program has
\* been fetched as an ordinary opcode, with no NMI served or pending.
C39_Witness ==
    /\ obs.taken.LOST = 1
    /\ obs.taken.RESET = 1
    /\ obs.taken.NMI = 0
    /\ obs.nmiEdges = 1
    /\ obs.seqKind = "OP"
    /\ obs.step = "Fetch_Opcode_IncPc_Phi2"
    /\ ~cpu.m_bDetectedNmi /\ ~cpu.m_bHandleNmi

\* The same, when ClearNmi() was never called: the line was lowered by the
\* selection itself.
C39_WitnessLine ==
    /\ obs.taken.LOST = 1
    /\ obs.taken.NMI = 0
    /\ obs.step = "Brk_BeginInst"
    /\ obs.seqKind = "RESET"
    /\ ~obs.clearNmiCalled
    /\ obs.lineEvents = 1
    /\ ~cpu.m_bNmiStatusLine

---------------------------------------------------------------------------
(* The bank register of mapper 094 (specification SpecBank): PRG ROMs of   *)
(* every size ApplyMap takes, those below 16 KiB included.                 *)

\* The PRG ROM sizes: none, 8 KiB, and those of PrgSizes.
BankPrgSizes == {0, 8192} \cup PrgSizes

\* What the register can hold after a modulo by zero that did not trap.
UbBanks == {0, 1, 7, 255}

InitBank ==
    /\ cpu = Console(0).cpu
    /\ bus = [ApplyMemoryMap EXCEPT !.cart = Mapper094, !.driven = {"ram", "prg"}]
    /\ \E size \in BankPrgSizes :
          /\ mapper = ApplyMap(InitWithRom(size))
          /\ obs = [ObsInit EXCEPT !.start = InitWithRom(size).prg]
    /\ phase = "bus"

\* The program writes v to a, and the bus calls CMapper094::SelectBank.
\* With vPrgRom.size() / 0x4000 = 0 the modulo has no defined result: the
\* process traps, or the register takes some value.
WriteBank(a, v) ==
    /\ phase = "bus"
    /\ obs.busOps < MaxMapperOps
    /\ obs' = [obs EXCEPT !.acc = [kind |-> "write", addr |-> a, val |-> v,
                                   ret |-> 0, before |-> bus.openBus,
                                   mask |-> FloatMask(bus, a)],
                          !.lastWrite = <<v>>,
                          !.busOps = @ + 1]
    /\ IF mapper.prg.size \div 16384 > 0
       THEN \E m1 \in {BusWrite(Machine, a, v)} :
               /\ cpu' = m1.cpu
               /\ bus' = m1.bus
               /\ mapper' = m1.mapper
               /\ phase' = phase
       ELSE /\ bus' = [bus EXCEPT !.openBus = v,
                                  !.log = <<[addr |-> a, val |-> v, read |-> FALSE]>>]
            /\ cpu' = cpu
            /\ \/ /\ phase' = "trapped"
                  /\ mapper' = mapper
               \/ /\ phase' = phase
                  /\ \E b \in UbBanks : mapper' = [mapper EXCEPT !.m_ui8PgmBank = b]

NextBank == \E a \in PrgAddrs, v \in BankWrites : WriteBank(a, v)

SpecBank == InitBank /\ [][NextBank]_vars

\* C40: for every PRG ROM size, after InitWithRom and any bank-select
\* writes, the bank register is below the number of 16-KiB banks and is
\* bits 2 to 4 of the byte written last modulo that number (bank 0 before
\* any write), whatever the other bits of the byte were; no write stops the
\* program.
C40_BankRegisterValid ==
    LET n == obs.start.size \div 16384
    IN  /\ phase = "bus"
        /\ mapper.m_ui8PgmBank < n
        /\ n > 0 => mapper.m_ui8PgmBank = SelectedBank(n)

\* What holds: with one or more banks the register is a valid bank index,
\* bits 2 to 4 of the byte written last modulo the number of banks.
BankRegisterValidWithBanks ==
    LET n == obs.start.size \div 16384
    IN  n > 0 => /\ phase = "bus"
                 /\ mapper.m_ui8PgmBank < n
                 /\ mapper.m_ui8PgmBank = SelectedBank(n)

\* A write to a cartridge with 8 KiB of PRG ROM has stopped the program.
BankWriteTrapped ==
    /\ phase = "trapped"
    /\ obs.start.size = 8192
    /\ obs.lastWrite = <<4>>
====
